---------------------------- MODULE Spec2Model ----------------------------
(***************************************************************************)
(* Eco-DMS backend: the SIWE nonce / prepare / verify / token protocol of  *)
(* backend/app/auth_routes.py over the Redis service, the in-memory        *)
(* NonceStore of swie_auth/siwe_store.py, and the IPFS-backed profile and  *)
(* follow graph of services/user_service.py.                               *)
(*                                                                         *)
(* Strings are sequences of one-character strings, so that rendering and   *)
(* parsing of the challenge message are computed character by character.   *)
(* Time is the integer second returned by int(time.time()).                *)
(***************************************************************************)
EXTENDS Integers, Sequences, FiniteSets, TLC

\* ------------------------------------------------------------------------
\* Bounds of the model (time is scaled: the TTLs, the window and the limits
\* are the settings of config.py shrunk so that expiry happens in a run).
\* ------------------------------------------------------------------------
MaxTime == 3
NONCE_TTL == 2
\* NonceStore(ttl_seconds)
NonceStore_ttl == 2
SESSION_TTL == 3
\* SessionStore(ttl_seconds)
SessionStore_ttl == 2
RATE_LIMIT_WINDOW_SEC == 2
RATE_LIMIT_MAX_NONCE == 1
RATE_LIMIT_MAX_VERIFY == 2
MaxExpiry == 101
\* calls of _rl followed in a run of SpecRL
MaxRlCalls == 4
\* documents the blob store holds in a run of SpecUser
MaxBlobs == 6
\* store calls of one request whose outcome is chosen
MaxStoreCalls == 4
\* seconds and documents followed in a run of SpecStore
MaxStoreTime == 1
MaxStoreBlobs == 4
\* ex=24 * 3600 of the profile CID keys
PROFILE_CID_TTL == 2

\* Program constants: the {40} of the address pattern, secrets.token_hex(8).
AddrHexLen == 40
NonceBytes == 8
NonceHexLen == 2 * NonceBytes
StoreNonceBytes == 12
StoreNonceHexLen == 2 * StoreNonceBytes

\* Python's None: for a string-valued expression and for an int-valued one.
NoneStr == <<"None">>
NoneInt == 0 - 1
\* "if not s": None and the empty string are falsy
Falsy(s) == s = NoneStr \/ s = <<>>

\* ------------------------------------------------------------------------
\* Characters and strings
\* ------------------------------------------------------------------------
Rep(c, n) == [i \in 1..n |-> c]
\* the element of a one-element set: The({e(x) : x \in {v}}) is e(v) with v
\* computed once
The(S) == CHOOSE x \in S : TRUE

UpperAlpha ==
    <<"A","B","C","D","E","F","G","H","I","J","K","L","M",
      "N","O","P","Q","R","S","T","U","V","W","X","Y","Z">>
LowerAlpha ==
    <<"a","b","c","d","e","f","g","h","i","j","k","l","m",
      "n","o","p","q","r","s","t","u","v","w","x","y","z">>
DigitChars == <<"0","1","2","3","4","5","6","7","8","9">>

Range(s) == {s[i] : i \in DOMAIN s}
Digit == Range(DigitChars)
Alnum == Range(UpperAlpha) \cup Range(LowerAlpha) \cup Digit
Hex == Digit \cup {"a","b","c","d","e","f","A","B","C","D","E","F"}
Whitespace == {" ", "\n", "\t", "\r"}

\* str.lower()
LowerChar(c) ==
    IF c \in Range(UpperAlpha)
    THEN LowerAlpha[CHOOSE i \in DOMAIN UpperAlpha : UpperAlpha[i] = c]
    ELSE c
Lower(s) == [i \in DOMAIN s |-> LowerChar(s[i])]

\* str(int) of a non-negative integer
RECURSIVE IntToStr(_)
IntToStr(n) ==
    IF n < 10 THEN <<DigitChars[n + 1]>>
    ELSE IntToStr(n \div 10) \o <<DigitChars[(n % 10) + 1]>>

\* int(str) of a string of decimal digits
DigitVal(c) == (CHOOSE i \in DOMAIN DigitChars : DigitChars[i] = c) - 1
RECURSIVE StrToInt(_)
StrToInt(s) ==
    IF Len(s) = 0 THEN 0
    ELSE 10 * StrToInt(SubSeq(s, 1, Len(s) - 1)) + DigitVal(s[Len(s)])

S_SignIn == <<"S","i","g","n"," ","i","n"," ","t","o"," ","E","c","o","-","D","M","S",":">>
S_Address == <<"A","d","d","r","e","s","s",":">>
S_Nonce == <<"N","o","n","c","e",":">>
S_Expires == <<"E","x","p","i","r","e","s",":">>
S_0x == <<"0","x">>
NL == <<"\n">>
SP == <<" ">>

\* ------------------------------------------------------------------------
\* Challenge Composer: the f-string of siwe_prepare / legacy_prepare /
\* the verify handlers, and _parse_prepared_message
\* ------------------------------------------------------------------------
RenderMessage(address, nonce, expires) ==
    S_SignIn \o NL \o S_Address \o SP \o Lower(address) \o NL
             \o S_Nonce \o SP \o nonce \o NL
             \o S_Expires \o SP \o IntToStr(expires)

\* does the literal lit occur in s at position i
LitAt(s, i, lit) ==
    /\ i + Len(lit) - 1 <= Len(s)
    /\ SubSeq(s, i, i + Len(lit) - 1) = lit

\* first position >= j of s holding no character of class (Len(s)+1 if none)
RunEnd(s, j, class) ==
    LET stops == {k \in j..(Len(s) + 1) : k = Len(s) + 1 \/ s[k] \notin class}
    IN  CHOOSE k \in stops : \A k2 \in stops : k <= k2

\* smallest element of a non-empty set of positions, 0 for the empty set
FirstPos(hits) ==
    IF hits = {} THEN 0 ELSE CHOOSE i \in hits : \A i2 \in hits : i <= i2

\* the match of r"Address:\s*(0x[a-fA-F0-9]{40})" starting at i: group 1 or None
AddrGroupAt(s, i) ==
    IF ~LitAt(s, i, S_Address) THEN NoneStr
    ELSE LET j == RunEnd(s, i + Len(S_Address), Whitespace)
         IN  IF /\ LitAt(s, j, S_0x)
                /\ j + 1 + AddrHexLen <= Len(s)
                /\ \A k \in (j + 2)..(j + 1 + AddrHexLen) : s[k] \in Hex
             THEN SubSeq(s, j, j + 1 + AddrHexLen)
             ELSE NoneStr

\* the match of r"<lit>\s*([class]+)" starting at i: group 1 or None
RunGroupAt(s, i, lit, class) ==
    IF ~LitAt(s, i, lit) THEN NoneStr
    ELSE LET j == RunEnd(s, i + Len(lit), Whitespace)
             e == RunEnd(s, j, class)
         IN  IF e > j THEN SubSeq(s, j, e - 1) ELSE NoneStr

\* re.search: the leftmost match
SearchAddr(s) ==
    LET i == FirstPos({k \in 1..Len(s) : AddrGroupAt(s, k) # NoneStr})
    IN  IF i = 0 THEN NoneStr ELSE AddrGroupAt(s, i)

SearchRun(s, lit, class) ==
    LET i == FirstPos({k \in 1..Len(s) : RunGroupAt(s, k, lit, class) # NoneStr})
    IN  IF i = 0 THEN NoneStr ELSE RunGroupAt(s, i, lit, class)

MutParse_DigitNonce(message) ==
    LET m_addr == SearchAddr(message)
        m_nonce == SearchRun(message, S_Nonce, Digit)
        m_exp == SearchRun(message, S_Expires, Digit)
    IN  [addr |-> IF m_addr # NoneStr THEN Lower(m_addr) ELSE NoneStr,
         nonce |-> m_nonce,
         expires |-> IF m_exp # NoneStr THEN StrToInt(m_exp) ELSE NoneInt]

_parse_prepared_message(message) ==
    LET m_addr == SearchAddr(message)
        m_nonce == SearchRun(message, S_Nonce, Alnum)
        m_exp == SearchRun(message, S_Expires, Digit)
    IN  [addr |-> IF m_addr # NoneStr THEN Lower(m_addr) ELSE NoneStr,
         nonce |-> m_nonce,
         expires |-> IF m_exp # NoneStr THEN StrToInt(m_exp) ELSE NoneInt]

\* ------------------------------------------------------------------------
\* The values requests are drawn from
\* ------------------------------------------------------------------------
\* Two wallets, by their lowercase address; the first one is also written
\* in mixed case, as wallets display it.
Wallet1 == S_0x \o Rep("a", AddrHexLen)
Wallet2 == S_0x \o Rep("b", AddrHexLen)
Wallet1Mixed == S_0x \o Rep("A", AddrHexLen \div 2) \o Rep("a", AddrHexLen - AddrHexLen \div 2)
Wallets == {Wallet1, Wallet2}
\* the addresses requests claim, and the addresses written in their messages
ReqAddr == {Wallet1, Wallet1Mixed}
MsgAddr == {Wallet1}

\* The values secrets.token_hex(8) returns in a run.
NonceSeq == <<Rep("1", NonceHexLen), Rep("e", NonceHexLen)>>
NoncePool == {NonceSeq[i] : i \in DOMAIN NonceSeq}

\* What a client can send as "message": the rendered message, or a text
\* derived from it.
Shapes == {"exact", "no_expires", "leading", "trailing", "reordered", "no_nonce"}
S_Junk == <<"h","i">>
ShapedMessage(shape, address, nonce, expires) ==
    LET head == S_SignIn \o NL
        la == S_Address \o SP \o Lower(address)
        ln == S_Nonce \o SP \o nonce
        le == S_Expires \o SP \o IntToStr(expires)
    IN  CASE shape = "exact" -> RenderMessage(address, nonce, expires)
          [] shape = "no_expires" -> head \o la \o NL \o ln
          [] shape = "leading" -> S_Junk \o NL \o RenderMessage(address, nonce, expires)
          [] shape = "trailing" -> RenderMessage(address, nonce, expires) \o NL \o S_Junk
          [] shape = "reordered" -> head \o ln \o NL \o la \o NL \o le
          [] shape = "no_nonce" -> head \o la \o NL \o le

\* A text a request carries is named by how it was built: Text(d) is the
\* text itself. Distinct names in Msgs are distinct texts.
NoMsg == [shape |-> "none", address |-> NoneStr, nonce |-> NoneStr, expires |-> NoneInt]
Msg(shape, address, nonce, expires) ==
    [shape |-> shape, address |-> address, nonce |-> nonce, expires |-> expires]
Text(d) == ShapedMessage(d.shape, d.address, d.nonce, d.expires)
ExpRange == 0..(MaxTime + NONCE_TTL)
Msgs == {Msg(sh, a, n, e) : sh \in Shapes, a \in MsgAddr, n \in NoncePool, e \in ExpRange}

\* str.lower() and _parse_prepared_message on the values of a run, computed
\* once (the comparison makes the tables explicit)
AddrValues == ReqAddr \cup {S_0x \o Rep("9", AddrHexLen)} \cup
              {S_0x \o Rep(c, AddrHexLen \div 2) \o Rep(LowerChar(c), AddrHexLen - AddrHexLen \div 2) :
                  c \in {"A", "B"}}
LowerOf == LET f == [a \in AddrValues |-> Lower(a)] IN IF f = f THEN f ELSE f
ParsedOf == LET f == [d \in Msgs |-> _parse_prepared_message(Text(d))] IN IF f = f THEN f ELSE f
lower(a) == IF a \in AddrValues THEN LowerOf[a] ELSE IF a = NoneStr THEN a ELSE Lower(a)
\* the message of the f-string in the prepare and verify handlers
Rendered(address, nonce, expires) == Msg("exact", lower(address), nonce, expires)
\* is the text exactly what the renderer returns for some address, nonce, expiry
Renderable(d) == d.shape = "exact"

\* ------------------------------------------------------------------------
\* Signatures and tokens
\* ------------------------------------------------------------------------
\* A signature is what a wallet produced over a text, or bytes that are no
\* signature at all.
BadSig == [signer |-> NoneStr, msg |-> NoMsg]
SigOf(wallet, text) == [signer |-> wallet, msg |-> text]

UpperChar(c) ==
    IF c \in Range(LowerAlpha)
    THEN UpperAlpha[CHOOSE i \in DOMAIN LowerAlpha : LowerAlpha[i] = c]
    ELSE c
\* the mixed-case form in which eth_account returns an address
Checksum(a) ==
    S_0x \o Rep(UpperChar(a[3]), AddrHexLen \div 2) \o SubSeq(a, 3 + AddrHexLen \div 2, Len(a))
\* the address a well-formed signature over another text recovers to
OtherAddr == S_0x \o Rep("9", AddrHexLen)

\* Account.recover_message(encode_defunct(text=message), signature):
\* NoneStr stands for the exception
recover_message(message, signature) ==
    IF signature.signer = NoneStr THEN NoneStr
    ELSE IF signature.msg = message THEN Checksum(signature.signer)
    ELSE OtherAddr

MutVerifySig_NoLower(address, message, signature) ==
    LET recovered == recover_message(message, signature)
    IN  IF recovered = NoneStr THEN FALSE ELSE recovered = address

_verify_sig(address, message, signature) ==
    LET recovered == recover_message(message, signature)
    IN  IF recovered = NoneStr THEN FALSE ELSE lower(recovered) = lower(address)

NoToken == [sub |-> NoneStr, exp |-> NoneInt, iat |-> NoneInt, sig |-> "none"]

\* jwt.encode({"sub", "exp", "iat"}, JWT_SECRET_KEY) in the verify handlers
MintToken(address_lc, t) ==
    [sub |-> address_lc, exp |-> t + SESSION_TTL, iat |-> t, sig |-> "server"]

\* jwt.decode(token, JWT_SECRET_KEY, algorithms=[HS256]) raises on a bad
\* signature, at exp <= now and at iat > now; TRUE when it returns the payload
MutDecode_ExpInclusive(token, t) ==
    /\ token.sig = "server"
    /\ t <= token.exp
    /\ token.iat <= t

_decode_jwt(token, t) ==
    /\ token.sig = "server"
    /\ t < token.exp
    /\ token.iat <= t

\* get_current_user(authorization): the subject, or 401
get_current_user(authorization, t) ==
    IF authorization.scheme # "Bearer " THEN [status |-> 401, detail |-> "Missing Bearer token", sub |-> NoneStr]
    ELSE IF ~_decode_jwt(authorization.token, t)
         THEN [status |-> 401, detail |-> "Invalid or expired token", sub |-> NoneStr]
    ELSE IF Falsy(authorization.token.sub)
         THEN [status |-> 401, detail |-> "Token missing subject", sub |-> NoneStr]
    ELSE [status |-> 200, detail |-> "", sub |-> authorization.token.sub]

\* ------------------------------------------------------------------------
\* RedisService: keys with a value and the time at which they expire
\* ------------------------------------------------------------------------
Ip1 == <<"i","p","1">>
Ip2 == <<"i","p","2">>
Ips == {Ip1, Ip2}

_nonce_key(nonce) == <<"siwe:nonce:", nonce>>
RlNonceKey(ip) == <<"rl:nonce:", ip>>
RlVerifyKey(ip) == <<"rl:verify:", ip>>
RedisKeys ==
    {_nonce_key(n) : n \in NoncePool} \cup {RlNonceKey(ip) : ip \in Ips}
        \cup {RlVerifyKey(ip) : ip \in Ips}

Absent == [val |-> 0, exp |-> 0]
Present(r, key, t) == key \in DOMAIN r /\ r[key] # Absent /\ t < r[key].exp

\* client.get(key): the value (as an integer) or None
get_str(r, key, t) == IF Present(r, key, t) THEN r[key].val ELSE NoneInt
\* client.set(key, value, ex=ex)
set_str(r, key, value, ex, t) == [r EXCEPT ![key] = [val |-> value, exp |-> t + ex]]
\* client.delete(key)
delete(r, key) == [r EXCEPT ![key] = Absent]

\* pipeline: INCR key, EXPIRE key ex; the result of INCR
incr(r, key, ex, t) ==
    LET count == (IF Present(r, key, t) THEN r[key].val ELSE 0) + 1
    IN  [redis |-> [r EXCEPT ![key] = [val |-> count, exp |-> t + ex]],
         count |-> count]

\* _rl(key, limit, window): the store after the increment, and whether the
\* request goes on (FALSE: HTTPException 429)
MutRl_OffByOne(r, key, limit, window, t) ==
    The({[redis |-> res.redis, ok |-> ~(res.count > limit + 1), count |-> res.count] :
            res \in {incr(r, key, window, t)}})

_rl(r, key, limit, window, t) ==
    The({[redis |-> res.redis, ok |-> ~(res.count > limit), count |-> res.count] :
            res \in {incr(r, key, window, t)}})

\* keys whose time has come are gone
Expire(r, t) == [k \in DOMAIN r |-> IF r[k] # Absent /\ t >= r[k].exp THEN Absent ELSE r[k]]

\* ------------------------------------------------------------------------
\* siwe_store.NonceStore: the dict _data, nonce -> time of creation
\* ------------------------------------------------------------------------
StoreNonceSeq == <<Rep("a", StoreNonceHexLen)>>
StoreNoncePool == {StoreNonceSeq[i] : i \in DOMAIN StoreNonceSeq}

\* self._data[nonce] = time.time()
create_nonce(data, nonce, t) == [data EXCEPT ![nonce] = t]

\* self._data.pop(nonce, None)
pop(data, nonce) == [data EXCEPT ![nonce] = NoneInt]

validate_and_consume(data, nonce, t) ==
    IF data[nonce] = NoneInt THEN [ok |-> FALSE, data |-> data]
    ELSE IF t - data[nonce] > NonceStore_ttl THEN [ok |-> FALSE, data |-> pop(data, nonce)]
    ELSE [ok |-> TRUE, data |-> pop(data, nonce)]

\* ------------------------------------------------------------------------
\* ipfs_service, pinata_service and user_service: profile documents in a
\* content-addressed blob store, and the cache wallet_address -> CID of the
\* current profile
\* ------------------------------------------------------------------------
Users == Wallets
NoneDoc == [wallet_address |-> NoneStr]
NoneCid == [hash |-> NoneDoc]
\* the CID of a document is a function of its content
CidOf(data) == [hash |-> data]

\* The blob store and the pinning service are reached over HTTP and a call
\* may fail. env lists the outcomes of the calls a request makes, in call
\* order and per service (TRUE: the call succeeds); the calls past the end
\* of a list succeed.
NoFailures == [put |-> <<>>, get |-> <<>>, pin |-> <<>>]
\* the calls made so far, and the outcome of the next call after n calls
NoCalls == [put |-> 0, get |-> 0, pin |-> 0]
Outcome(seq, n) == n + 1 > Len(seq) \/ seq[n + 1]

\* ipfs_service.add_json(data): the blob store afterwards, and the CID (None
\* when neither the IPFS API nor Pinata took the document)
add_json(blobs, data, ok) ==
    IF ok THEN [blobs |-> blobs \cup {data}, cid |-> CidOf(data)]
    ELSE [blobs |-> blobs, cid |-> NoneCid]
\* ipfs_service.get_json(cid): the document, None when the gateway fails
get_json(blobs, cid, ok) == IF ok /\ cid.hash \in blobs THEN cid.hash ELSE NoneDoc
\* pinata_service.pin_by_cid(cid): True or False, never an exception
pin_by_cid(cid, ok) == ok

\* datetime.isoformat() and datetime.fromisoformat(), on the clock's seconds
isoformat(t) == IntToStr(t)
fromisoformat(s) == StrToInt(s)
\* profile.model_dump() with both datetimes as ISO strings: the JSON document
Serialize(profile) ==
    [profile EXCEPT !.created_at = isoformat(@), !.updated_at = isoformat(@)]
\* UserProfile(**data) after both ISO strings were parsed
Deserialize(data) ==
    [data EXCEPT !.created_at = fromisoformat(@), !.updated_at = fromisoformat(@)]

S_user_ == <<"u","s","e","r","_">>
S_NewUserBio == <<"N","e","w"," ","E","c","o","-","D","M","S"," ","u","s","e","r">>
\* UserProfile(wallet_address, username, bio, avatar_cid, documents_cid,
\* created_at, updated_at), both lists empty
DefaultProfile(wallet_address, t) ==
    [wallet_address |-> wallet_address,
     username |-> S_user_ \o SubSeq(wallet_address, 1, 8),
     bio |-> S_NewUserBio, avatar_cid |-> <<>>, documents_cid |-> <<>>,
     followers |-> <<>>, following |-> <<>>,
     created_at |-> t, updated_at |-> t]

\* a state of the service: st.cache is user_cache, st.blobs the blob store,
\* st.env the outcomes of the store calls, st.calls the calls made
\* user_service.save_profile(profile): the state afterwards and the CID
MutSave_PinFatal(st, profile, t) ==
    The({IF added.cid = NoneCid
         THEN [st |-> [st EXCEPT !.calls.put = @ + 1], cid |-> NoneCid]
         ELSE IF ~pin_by_cid(added.cid, Outcome(st.env.pin, st.calls.pin))
         THEN [st |-> [st EXCEPT !.blobs = added.blobs, !.calls.put = @ + 1, !.calls.pin = @ + 1],
               cid |-> NoneCid]
         ELSE [st |-> [cache |-> [st.cache EXCEPT ![profile.wallet_address] = added.cid],
                       blobs |-> added.blobs,
                       env |-> st.env,
                       calls |-> [st.calls EXCEPT !.put = @ + 1, !.pin = @ + 1]],
               cid |-> added.cid] :
            added \in {add_json(st.blobs, Serialize([profile EXCEPT !.updated_at = t]),
                                Outcome(st.env.put, st.calls.put))}})

MutSave_StampsCreated(st, profile, t) ==
    The({IF added.cid = NoneCid
         THEN [st |-> [st EXCEPT !.calls.put = @ + 1], cid |-> NoneCid]
         ELSE [st |-> [cache |-> [st.cache EXCEPT ![profile.wallet_address] = added.cid],
                       blobs |-> added.blobs,
                       env |-> st.env,
                       calls |-> [st.calls EXCEPT !.put = @ + 1, !.pin = @ + 1]],
               cid |-> added.cid] :
            added \in {add_json(st.blobs,
                                Serialize([profile EXCEPT !.created_at = t, !.updated_at = t]),
                                Outcome(st.env.put, st.calls.put))}})

MutSave_KeepTimestamp(st, profile, t) ==
    The({IF added.cid = NoneCid
         THEN [st |-> [st EXCEPT !.calls.put = @ + 1], cid |-> NoneCid]
         ELSE [st |-> [cache |-> [st.cache EXCEPT ![profile.wallet_address] = added.cid],
                       blobs |-> added.blobs,
                       env |-> st.env,
                       calls |-> [st.calls EXCEPT !.put = @ + 1, !.pin = @ + 1]],
               cid |-> added.cid] :
            added \in {add_json(st.blobs, Serialize(profile), Outcome(st.env.put, st.calls.put))}})

save_profile(st, profile, t) ==
    The({IF added.cid = NoneCid
         THEN [st |-> [st EXCEPT !.calls.put = @ + 1], cid |-> NoneCid]
         ELSE The({[st |-> [cache |-> [st.cache EXCEPT ![profile.wallet_address] = added.cid],
                            blobs |-> added.blobs,
                            env |-> st.env,
                       calls |-> [st.calls EXCEPT !.put = @ + 1, !.pin = @ + 1]],
                    cid |-> added.cid] :
                      pinned \in {pin_by_cid(added.cid, Outcome(st.env.pin, st.calls.pin))}}) :
            added \in {add_json(st.blobs, Serialize([profile EXCEPT !.updated_at = t]),
                                Outcome(st.env.put, st.calls.put))}})

\* user_service.get_profile(wallet_address): the profile or None
get_profile(st, wallet_address) ==
    IF st.cache[wallet_address] = NoneCid THEN [st |-> st, profile |-> NoneDoc]
    ELSE The({[st |-> [st EXCEPT !.calls.get = @ + 1],
               profile |-> IF data = NoneDoc THEN NoneDoc ELSE Deserialize(data)] :
                 data \in {get_json(st.blobs, st.cache[wallet_address], Outcome(st.env.get, st.calls.get))}})

\* the second half of get_or_create_profile: a new profile is built and saved
CreateProfile(st, wallet_address, t) ==
    The({[st |-> saved.st, profile |-> DefaultProfile(wallet_address, t), cid |-> saved.cid] :
            saved \in {save_profile(st, DefaultProfile(wallet_address, t), t)}})

\* user_service.get_or_create_profile(wallet_address): (profile, cid)
get_or_create_profile(st, wallet_address, t) ==
    IF st.cache[wallet_address] = NoneCid THEN CreateProfile(st, wallet_address, t)
    ELSE The({IF data # NoneDoc
              THEN [st |-> [st EXCEPT !.calls.get = @ + 1], profile |-> Deserialize(data),
                    cid |-> st.cache[wallet_address]]
              ELSE CreateProfile([st EXCEPT !.calls.get = @ + 1], wallet_address, t) :
                 data \in {get_json(st.blobs, st.cache[wallet_address], Outcome(st.env.get, st.calls.get))}})

\* user_service.update_profile(wallet_address, username, bio, avatar_cid):
\* the new CID or None
MutUpdate_FallsBackToPointer(st, wallet_address, username, bio, avatar_cid, t) ==
    The({The({IF saved.cid # NoneCid THEN saved
              ELSE [st |-> saved.st, cid |-> saved.st.cache[wallet_address]] :
                 saved \in {save_profile(r2.st,
                                         [r2.profile EXCEPT
                                             !.username = IF Falsy(username) THEN @ ELSE username],
                                         t)}}) :
            r2 \in {The({IF r1.profile # NoneDoc THEN r1
                         ELSE get_or_create_profile(r1.st, wallet_address, t) :
                            r1 \in {get_profile(st, wallet_address)}})}})

update_profile(st, wallet_address, username, bio, avatar_cid, t) ==
    The({save_profile(r2.st,
                      [r2.profile EXCEPT
                          !.username = IF Falsy(username) THEN @ ELSE username,
                          !.bio = IF Falsy(bio) THEN @ ELSE bio,
                          !.avatar_cid = IF Falsy(avatar_cid) THEN @ ELSE avatar_cid],
                      t) :
            r2 \in {The({IF r1.profile # NoneDoc THEN r1
                         ELSE get_or_create_profile(r1.st, wallet_address, t) :
                            r1 \in {get_profile(st, wallet_address)}})}})

\* x in list, list.remove(x)
InList(x, list) == \E i \in DOMAIN list : list[i] = x
FirstIndex(x, list) == CHOOSE i \in DOMAIN list : list[i] = x /\ \A k \in 1..(i - 1) : list[k] # x
Remove(x, list) ==
    SubSeq(list, 1, FirstIndex(x, list) - 1) \o SubSeq(list, FirstIndex(x, list) + 1, Len(list))

\* user_service.follow_user(follower_address, following_address), after both
\* profiles were read
MutFollowSaves_NoMembershipTest(st, follower_profile, following_profile, t) ==
    The({save_profile(st1, [following_profile EXCEPT
                              !.followers = Append(@, follower_profile.wallet_address)], t).st :
            st1 \in {save_profile(st, [follower_profile EXCEPT
                                         !.following = Append(@, following_profile.wallet_address)],
                                  t).st}})

MutFollowSaves_FollowerOnly(st, follower_profile, following_profile, t) ==
    IF InList(following_profile.wallet_address, follower_profile.following) THEN st
    ELSE save_profile(st, [follower_profile EXCEPT
                             !.following = Append(@, following_profile.wallet_address)], t).st

FollowSaves(st, follower_profile, following_profile, t) ==
    The({IF InList(follower_profile.wallet_address, following_profile.followers) THEN st1
         ELSE save_profile(st1, [following_profile EXCEPT
                                    !.followers = Append(@, follower_profile.wallet_address)], t).st :
            st1 \in {IF InList(following_profile.wallet_address, follower_profile.following) THEN st
                     ELSE save_profile(st, [follower_profile EXCEPT
                                              !.following = Append(@, following_profile.wallet_address)],
                                       t).st}})

follow_user(st, follower_address, following_address, t) ==
    The({The({[st |-> FollowSaves(r2.st, r1.profile, r2.profile, t), ok |-> TRUE] :
                 r2 \in {get_or_create_profile(r1.st, following_address, t)}}) :
            r1 \in {get_or_create_profile(st, follower_address, t)}})

\* user_service.unfollow_user(follower_address, following_address), after
\* both profiles were read
UnfollowSaves(st, follower_profile, following_profile, t) ==
    The({IF ~InList(follower_profile.wallet_address, following_profile.followers) THEN st1
         ELSE save_profile(st1, [following_profile EXCEPT
                                    !.followers = Remove(follower_profile.wallet_address, @)], t).st :
            st1 \in {IF ~InList(following_profile.wallet_address, follower_profile.following) THEN st
                     ELSE save_profile(st, [follower_profile EXCEPT
                                              !.following = Remove(following_profile.wallet_address, @)],
                                       t).st}})

MutUnfollow_FollowingOnly(st, follower_address, following_address, t) ==
    The({The({IF r1.profile = NoneDoc \/ r2.profile = NoneDoc
              THEN [st |-> r2.st, ok |-> FALSE]
              ELSE [st |-> IF ~InList(following_address, r1.profile.following) THEN r2.st
                           ELSE save_profile(r2.st, [r1.profile EXCEPT
                                                       !.following = Remove(following_address, @)],
                                             t).st,
                    ok |-> TRUE] :
                 r2 \in {get_profile(r1.st, following_address)}}) :
            r1 \in {get_profile(st, follower_address)}})

unfollow_user(st, follower_address, following_address, t) ==
    The({The({IF r1.profile = NoneDoc \/ r2.profile = NoneDoc
              THEN [st |-> r2.st, ok |-> FALSE]
              ELSE [st |-> UnfollowSaves(r2.st, r1.profile, r2.profile, t), ok |-> TRUE] :
                 r2 \in {get_profile(r1.st, following_address)}}) :
            r1 \in {get_profile(st, follower_address)}})

\* get_my_profile(wallet_address): the profile, created if there is none
MutMyProfile_NoCreate(st, wallet_address, t) == get_profile(st, wallet_address)

get_my_profile(st, wallet_address, t) ==
    The({IF r1.profile # NoneDoc THEN r1
         ELSE The({[st |-> r2.st, profile |-> r2.profile] :
                      r2 \in {get_or_create_profile(r1.st, wallet_address, t)}}) :
            r1 \in {get_profile(st, wallet_address)}})

\* user_service.get_followers(wallet_address) / get_following(wallet_address)
ProfileForList(st, wallet_address, t) ==
    The({IF r1.profile # NoneDoc THEN r1
         ELSE get_or_create_profile(r1.st, wallet_address, t) :
            r1 \in {get_profile(st, wallet_address)}})

get_followers(st, wallet_address, t) ==
    The({[st |-> r.st, list |-> r.profile.followers] : r \in {ProfileForList(st, wallet_address, t)}})

get_following(st, wallet_address, t) ==
    The({[st |-> r.st, list |-> r.profile.following] : r \in {ProfileForList(st, wallet_address, t)}})

\* ------------------------------------------------------------------------
\* State
\* ------------------------------------------------------------------------
VARIABLES
    pm,         \* render / parse of one message: its arguments, text, result
    now,        \* int(time.time())
    redis,      \* the Redis keys
    issuedAt,   \* history: the time each nonce was issued at (NoneInt: not yet)
    tokenCount, \* history: how many tokens were issued on each nonce
    tokens,     \* history: the tokens the verify handlers have returned
    lastPrepared, \* history: the last answer of a prepare handler
    last,       \* history: the last request and its response
    nonce_store,   \* NonceStore._data
    storeIssuedAt, \* history: the time each NonceStore nonce was created at
    storeTrue,     \* history: how often validate_and_consume returned True
    authority,     \* which nonce store the run uses: Redis or the NonceStore
    procs,         \* concurrent requests: where each one stands in its handler
    rlLog,         \* history: the calls of _rl, in the order Redis served them
    user_cache,    \* user_service.user_cache: wallet_address -> CID
    blobs,         \* the documents in the blob store
    graph,         \* history: what the last follow / unfollow of each pair did
    ulast,         \* history: the last request to the user routes
    profile_cids,  \* the Redis keys user:profile:cid:<address>
    session_store, \* SessionStore._sessions
    sessCreated,   \* history: the time each session was created at
    sessGone,      \* history: the sessions destroyed or seen expired
    cookies,       \* the session cookies set_session_cookie has handed out
    slast          \* history: the last call of the session layer

msgVars == <<pm>>
authVars == <<now, redis, issuedAt, tokenCount, tokens, lastPrepared, last>>
storeVars == <<nonce_store, storeIssuedAt, storeTrue>>
concVars == <<procs, rlLog>>
userVars == <<user_cache, blobs, graph, ulast, profile_cids>>
sessVars == <<session_store, sessCreated, sessGone, cookies, slast>>
vars == <<msgVars, authVars, storeVars, authority, sessVars, concVars, userVars>>

\* ------------------------------------------------------------------------
\* The handlers of auth_routes.py, as functions of the store, the time and
\* the request
\* ------------------------------------------------------------------------
\* the messages a request can carry, and their parse
NoParse == [addr |-> NoneStr, nonce |-> NoneStr, expires |-> NoneInt]
PmIdle ==
    [phase |-> "idle", shape |-> "exact", address |-> <<>>, nonce |-> <<>>,
     expires |-> 0, message |-> <<>>, out |-> NoParse]

\* nonce issue after the rate limit: siwe_nonce / legacy_get_nonce
MutIssueNonce_LongTtl(r, nonce, t) == set_str(r, _nonce_key(nonce), 1, NONCE_TTL + 2, t)

IssueNonce(r, nonce, t) == set_str(r, _nonce_key(nonce), 1, NONCE_TTL, t)

\* siwe_logout(authorization): the answer and the Redis keys afterwards
MutLogout_ResetsRateLimit(r, authorization, t) ==
    [ok |-> TRUE, redis |-> delete(r, RlVerifyKey(Ip1))]

siwe_logout(r, authorization, t) == [ok |-> TRUE, redis |-> r]

\* siwe_prepare / legacy_prepare
MutPrepare_NoLookup(r, t, req) ==
    [status |-> 200, detail |-> "",
     message |-> Rendered(req.address, req.nonce, t + NONCE_TTL), expires |-> t + NONCE_TTL]

siwe_prepare(r, t, req) ==
    IF get_str(r, _nonce_key(req.nonce), t) = NoneInt
    THEN [status |-> 400, detail |-> "Invalid or expired nonce",
          message |-> NoMsg, expires |-> NoneInt]
    ELSE [status |-> 200, detail |-> "",
          message |-> Rendered(req.address, req.nonce, t + NONCE_TTL),
          expires |-> t + NONCE_TTL]

\* the common tail of siwe_verify and legacy_verify, from the nonce lookup on
MutVerifyTail_SlidesOnFailure(r, t, address_lc, nonce, message, signature) ==
    IF get_str(r, _nonce_key(nonce), t) = NoneInt
    THEN [status |-> 400, detail |-> "Invalid or expired nonce", redis |-> r, token |-> NoToken]
    ELSE IF ~_verify_sig(address_lc, message, signature)
    THEN [status |-> 401, detail |-> "Signature invalid",
          redis |-> set_str(r, _nonce_key(nonce), 1, NONCE_TTL, t), token |-> NoToken]
    ELSE [status |-> 200, detail |-> "", redis |-> delete(r, _nonce_key(nonce)),
          token |-> MintToken(address_lc, t)]

MutVerifyTail_NoConsume(r, t, address_lc, nonce, message, signature) ==
    IF get_str(r, _nonce_key(nonce), t) = NoneInt
    THEN [status |-> 400, detail |-> "Invalid or expired nonce", redis |-> r, token |-> NoToken]
    ELSE IF ~_verify_sig(address_lc, message, signature)
    THEN [status |-> 401, detail |-> "Signature invalid", redis |-> r, token |-> NoToken]
    ELSE [status |-> 200, detail |-> "", redis |-> r,
          token |-> MintToken(address_lc, t)]

MutVerifyTail_BurnsOnFailure(r, t, address_lc, nonce, message, signature) ==
    IF get_str(r, _nonce_key(nonce), t) = NoneInt
    THEN [status |-> 400, detail |-> "Invalid or expired nonce", redis |-> r, token |-> NoToken]
    ELSE IF ~_verify_sig(address_lc, message, signature)
    THEN [status |-> 401, detail |-> "Signature invalid",
          redis |-> delete(r, _nonce_key(nonce)), token |-> NoToken]
    ELSE [status |-> 200, detail |-> "", redis |-> delete(r, _nonce_key(nonce)),
          token |-> MintToken(address_lc, t)]

VerifyTail(r, t, address_lc, nonce, message, signature) ==
    IF get_str(r, _nonce_key(nonce), t) = NoneInt
    THEN [status |-> 400, detail |-> "Invalid or expired nonce", redis |-> r, token |-> NoToken]
    ELSE IF ~_verify_sig(address_lc, message, signature)
    THEN [status |-> 401, detail |-> "Signature invalid", redis |-> r, token |-> NoToken]
    ELSE [status |-> 200, detail |-> "", redis |-> delete(r, _nonce_key(nonce)),
          token |-> MintToken(address_lc, t)]

\* the head of siwe_verify: which address, nonce and text are verified
\* (status 0: go on to the nonce lookup)
VerifyHead(t, req) ==
    IF req.message # NoMsg
    THEN The({
             IF Falsy(parsed.addr) \/ Falsy(parsed.nonce)
             THEN [status |-> 400, detail |-> "Invalid message format",
                   address_lc |-> parsed.addr, nonce |-> parsed.nonce, message |-> req.message]
             ELSE [status |-> 0, detail |-> "",
                   address_lc |-> parsed.addr, nonce |-> parsed.nonce, message |-> req.message]
             : parsed \in {ParsedOf[req.message]}})
    ELSE IF Falsy(req.address) \/ Falsy(req.nonce)
         THEN [status |-> 422, detail |-> "address and nonce required when message is not provided",
               address_lc |-> NoneStr, nonce |-> NoneStr, message |-> NoMsg]
         ELSE [status |-> 0, detail |-> "",
               address_lc |-> lower(req.address), nonce |-> req.nonce,
               message |-> Rendered(lower(req.address), req.nonce, t + NONCE_TTL)]

\* siwe_verify(req, request), and legacy_verify (whose request always has an
\* address and a nonce and never a message)
siwe_verify(r, t, req, ip) ==
    The({
        IF ~rl.ok
        THEN [status |-> 429, detail |-> "Too many requests", redis |-> rl.redis,
              token |-> NoToken, address_lc |-> NoneStr, nonce |-> NoneStr,
              message |-> NoMsg, count |-> rl.count]
        ELSE IF head.status # 0
        THEN [status |-> head.status, detail |-> head.detail, redis |-> rl.redis,
              token |-> NoToken, address_lc |-> head.address_lc, nonce |-> head.nonce,
              message |-> head.message, count |-> rl.count]
        ELSE The({
              [status |-> tail.status, detail |-> tail.detail, redis |-> tail.redis,
               token |-> tail.token, address_lc |-> head.address_lc, nonce |-> head.nonce,
               message |-> head.message, count |-> rl.count] :
              tail \in {VerifyTail(rl.redis, t, head.address_lc, head.nonce,
                                   head.message, req.signature)}})
        : rl \in {_rl(r, RlVerifyKey(ip), RATE_LIMIT_MAX_VERIFY, RATE_LIMIT_WINDOW_SEC, t)},
          head \in {VerifyHead(t, req)}})

\* ------------------------------------------------------------------------
\* Spec: the requests of the token flow, one at a time
\* ------------------------------------------------------------------------
NoPrepared ==
    [requested |-> NoneStr, address |-> NoneStr, nonce |-> NoneStr, message |-> NoMsg,
     expires |-> NoneInt]
LastIdle ==
    [op |-> "init", status |-> 0, detail |-> "", variant |-> "-",
     nonce |-> NoneStr, claimed |-> NoneStr, recovered |-> NoneStr,
     validBefore |-> FALSE, usedBefore |-> FALSE, renderable |-> FALSE,
     message |-> NoMsg, token |-> NoToken, expires_at |-> NoneInt, count |-> 0,
     auth |-> [scheme |-> "", token |-> NoToken], sub |-> NoneStr, ok |-> FALSE,
     signature |-> BadSig, changed |-> FALSE]

\* what of a request and its response each specification records in last
ViewFlow == {"op", "status", "detail", "variant", "nonce", "claimed", "recovered",
             "validBefore", "usedBefore", "renderable", "token", "ok"}
ViewPrep == {"op", "status", "variant", "nonce", "claimed", "validBefore", "message",
             "signature"}
ViewToken == {"op", "status", "claimed", "token", "auth", "sub"}
ViewConc == {"op", "status", "nonce"}
ViewLogout == {"op", "status", "token", "auth", "sub", "ok", "changed"}
ViewE2E == {"op", "status", "variant", "claimed", "validBefore", "message", "signature", "token"}
Keep(view, rec) == [f \in DOMAIN rec |-> IF f \in view THEN rec[f] ELSE LastIdle[f]]

InitAuth ==
    /\ now = 0
    /\ redis = [k \in RedisKeys |-> Absent]
    /\ issuedAt = [n \in NoncePool |-> NoneInt]
    /\ tokenCount = [n \in NoncePool |-> 0]
    /\ tokens = {}
    /\ lastPrepared = NoPrepared
    /\ last = LastIdle

\* ------------------------------------------------------------------------
\* siwe_store.SessionStore and the signed session cookie of
\* session_middleware.py
\* ------------------------------------------------------------------------
\* secrets.token_urlsafe draws a value never issued before; the pool is
\* handed out in order
SessionSeq == <<Rep("s", 1), Rep("s", 2)>>
SessionPool == {SessionSeq[i] : i \in DOMAIN SessionSeq}
NoSession == [address |-> NoneStr, created |-> NoneInt]
\* HMAC(key, sid.ts), modelled by what it was computed from
Mac(key, sid, ts) == [key |-> key, sid |-> sid, ts |-> ts]
NoCookie == [sid |-> NoneStr, ts |-> NoneInt, mac |-> Mac("none", NoneStr, NoneInt)]

\* SessionStore.create_session(address), sid the value drawn
create_session(sessions, sid, address, t) ==
    [sessions EXCEPT ![sid] = [address |-> lower(address), created |-> t]]

MutGetSession_StrictAge(sessions, sid, t) ==
    IF sid \notin DOMAIN sessions \/ sessions[sid] = NoSession
    THEN [sessions |-> sessions, data |-> NoSession]
    ELSE IF t - sessions[sid].created >= SessionStore_ttl
    THEN [sessions |-> [sessions EXCEPT ![sid] = NoSession], data |-> NoSession]
    ELSE [sessions |-> sessions, data |-> sessions[sid]]

\* SessionStore.get_session(sid)
get_session(sessions, sid, t) ==
    IF sid \notin DOMAIN sessions \/ sessions[sid] = NoSession
    THEN [sessions |-> sessions, data |-> NoSession]
    ELSE IF t - sessions[sid].created > SessionStore_ttl
    THEN [sessions |-> [sessions EXCEPT ![sid] = NoSession], data |-> NoSession]
    ELSE [sessions |-> sessions, data |-> sessions[sid]]

\* SessionStore.destroy(sid)
destroy(sessions, sid) ==
    IF sid \in DOMAIN sessions THEN [sessions EXCEPT ![sid] = NoSession] ELSE sessions

\* signer.sign(sid): the value, the time of signing, and a MAC over both
\* under settings.SECRET_KEY
sign(sid, t) == [sid |-> sid, ts |-> t, mac |-> Mac("SECRET_KEY", sid, t)]

\* signer.unsign(raw, max_age): BadSignature when the MAC is not the one of
\* the value and the timestamp under SECRET_KEY, SignatureExpired (a
\* BadSignature) for an age above max_age
unsign(raw, max_age, t) ==
    IF raw.mac # Mac("SECRET_KEY", raw.sid, raw.ts) THEN [ok |-> FALSE, sid |-> NoneStr]
    ELSE IF t - raw.ts > max_age \/ t - raw.ts < 0 THEN [ok |-> FALSE, sid |-> NoneStr]
    ELSE [ok |-> TRUE, sid |-> raw.sid]

\* SessionMiddleware.dispatch, up to call_next: request.state.session
dispatch(sessions, raw, t) ==
    IF raw = NoCookie
    THEN [sessions |-> sessions, session |-> NoSession]
    ELSE The({ IF ~u.ok
               THEN [sessions |-> sessions, session |-> NoSession]
               ELSE The({ [sessions |-> g.sessions, session |-> g.data] :
                            g \in {get_session(sessions, u.sid, t)} }) :
               u \in {unsign(raw, SessionStore_ttl, t)} })

\* deps.get_current_user(request)
deps_get_current_user(session) ==
    IF session = NoSession
    THEN [status |-> 401, detail |-> "Not authenticated", session |-> NoSession]
    ELSE [status |-> 200, detail |-> "", session |-> session]

SLastIdle ==
    [op |-> "init", status |-> 0, sid |-> NoneStr, cookie |-> NoCookie,
     session |-> NoSession, existedBefore |-> FALSE, at |-> NoneInt]
InitSession ==
    /\ session_store = [sid \in SessionPool |-> NoSession]
    /\ sessCreated = [sid \in SessionPool |-> NoneInt]
    /\ sessGone = [sid \in SessionPool |-> FALSE]
    /\ cookies = {}
    /\ slast = SLastIdle

InitStore ==
    /\ nonce_store = [n \in StoreNoncePool |-> NoneInt]
    /\ storeIssuedAt = [n \in StoreNoncePool |-> NoneInt]
    /\ storeTrue = [n \in StoreNoncePool |-> 0]

\* auth_routes.py keeps its nonces in Redis; siwe_store.NonceStore is the
\* in-memory store of the same service. A run uses one of the two.
Authorities == {"redis", "memory"}
ProcIds == {1, 2}
ProcIdle ==
    [pc |-> "idle", op |-> "-", nonce |-> NoneStr, address_lc |-> NoneStr,
     message |-> NoMsg, signature |-> BadSig, ts |-> NoneInt, status |-> 0]
InitConc ==
    /\ procs = [p \in ProcIds |-> ProcIdle]
    /\ rlLog = <<>>

\* at: the time of the request; auth: its Authorization header; authOk:
\* get_current_user accepted it;
\* putFailed / getFailed / pinFailed: an add_json / get_json / pin_by_cid
\* call of the request failed; lastPutFailed: its last add_json call did;
\* changed: a pointer or the blob store differs from before the request;
\* linked: before the request current_user's profile listed the target in
\* following; existed / moved: the identity's pointer before the request
\* was set / differs afterwards
ULastIdle ==
    [op |-> "init", status |-> 0, current_user |-> NoneStr, wallet_address |-> NoneStr,
     list |-> <<>>, changed |-> FALSE, linked |-> FALSE, existed |-> FALSE, moved |-> FALSE,
     cid |-> NoneCid, profile |-> NoneDoc,
     putFailed |-> FALSE, getFailed |-> FALSE, pinFailed |-> FALSE, lastPutFailed |-> FALSE,
     at |-> NoneInt, auth |-> [scheme |-> "", token |-> NoToken], authOk |-> FALSE]
\* client.set(_profile_cid_key(address), cid, ex=24 * 3600) keeps the CID
\* and its expiry
NoProfileCid == [val |-> NoneCid, exp |-> 0]

InitUser ==
    /\ user_cache = [w \in Users |-> NoneCid]
    /\ blobs = {}
    /\ graph = [pair \in Users \X Users |-> "none"]
    /\ ulast = ULastIdle
    /\ profile_cids = [w \in Users |-> NoProfileCid]

Init == pm = PmIdle /\ InitAuth /\ InitStore /\ InitConc /\ InitSession /\ InitUser /\ authority \in Authorities

\* the counters are followed up to one above their limit
RlRoom(key, limit) == get_str(redis, key, now) = NoneInt \/ get_str(redis, key, now) < limit + 1

\* token_hex draws a value never issued before; which one is immaterial, so
\* the pool is handed out in order (NoneStr once it is used up)
FreshNonceOf(seq, issued) ==
    IF \A i \in DOMAIN seq : issued[seq[i]] # NoneInt THEN NoneStr
    ELSE seq[CHOOSE i \in DOMAIN seq :
                 /\ issued[seq[i]] = NoneInt
                 /\ \A k \in 1..(i - 1) : issued[seq[k]] # NoneInt]

Tick ==
    /\ now < MaxTime
    /\ now' = now + 1
    /\ redis' = Expire(redis, now + 1)
    /\ last' = [LastIdle EXCEPT !.op = "tick"]
    /\ UNCHANGED <<msgVars, authority, sessVars, userVars, concVars, storeVars, issuedAt, tokenCount, tokens, lastPrepared>>

\* NonceStore.create_nonce()
CreateNonce ==
    /\ authority = "memory"
    /\ \E nonce \in {FreshNonceOf(StoreNonceSeq, storeIssuedAt)} :
        /\ nonce # NoneStr
        /\ nonce_store' = create_nonce(nonce_store, nonce, now)
        /\ storeIssuedAt' = [storeIssuedAt EXCEPT ![nonce] = now]
        /\ last' = Keep(ViewFlow, [LastIdle EXCEPT !.op = "create_nonce", !.nonce = nonce,
                                             !.ok = TRUE])
        /\ UNCHANGED <<msgVars, authority, sessVars, userVars, concVars, now, redis, issuedAt, tokenCount, tokens, lastPrepared, storeTrue>>

\* NonceStore.validate_and_consume(nonce)
ValidateAndConsume ==
    /\ authority = "memory"
    /\ \E nonce \in StoreNoncePool :
        \E res \in {validate_and_consume(nonce_store, nonce, now)} :
            /\ nonce_store' = res.data
            /\ storeTrue' = IF res.ok THEN [storeTrue EXCEPT ![nonce] = @ + 1] ELSE storeTrue
            /\ last' = Keep(ViewFlow, [LastIdle EXCEPT
                                         !.op = "validate_and_consume", !.nonce = nonce,
                                         !.ok = res.ok,
                                         !.validBefore = nonce_store[nonce] # NoneInt,
                                         !.usedBefore = storeTrue[nonce] > 0])
            /\ UNCHANGED <<msgVars, authority, sessVars, userVars, concVars, now, redis, issuedAt, tokenCount, tokens, lastPrepared,
                           storeIssuedAt>>

\* GET /nonce (siwe_nonce) and POST /auth/nonce (legacy_get_nonce)
NonceRequest(op, ip, view) ==
    /\ authority = "redis"
    /\ \E rl \in {_rl(redis, RlNonceKey(ip), RATE_LIMIT_MAX_NONCE, RATE_LIMIT_WINDOW_SEC, now)} :
        /\ RlRoom(RlNonceKey(ip), RATE_LIMIT_MAX_NONCE)
        /\ IF ~rl.ok
           THEN /\ redis' = rl.redis
                /\ last' = Keep(view, [LastIdle EXCEPT !.op = op, !.status = 429,
                                            !.detail = "Too many requests", !.count = rl.count])
                /\ UNCHANGED issuedAt
           ELSE \E nonce \in {FreshNonceOf(NonceSeq, issuedAt)} :
                /\ nonce # NoneStr
                /\ redis' = IssueNonce(rl.redis, nonce, now)
                /\ issuedAt' = [issuedAt EXCEPT ![nonce] = now]
                /\ last' = Keep(view, [LastIdle EXCEPT !.op = op, !.status = 200, !.nonce = nonce,
                                            !.expires_at = now + NONCE_TTL, !.count = rl.count])
        /\ UNCHANGED <<msgVars, authority, sessVars, userVars, concVars, storeVars, now, tokenCount, tokens, lastPrepared>>

SiweNonce == NonceRequest("siwe_nonce", Ip1, ViewFlow)
LegacyGetNonce == NonceRequest("legacy_get_nonce", Ip1, ViewFlow)

\* POST /prepare (siwe_prepare) and POST /auth/prepare (legacy_prepare);
\* track: whether the answer is remembered in lastPrepared
PrepareRequest(op, view, track) ==
    /\ authority = "redis"
    /\ \E address \in ReqAddr, nonce \in NoncePool :
        \E res \in {siwe_prepare(redis, now, [address |-> address, nonce |-> nonce])} :
            /\ last' = Keep(view, [LastIdle EXCEPT
                                     !.op = op, !.status = res.status, !.detail = res.detail,
                                     !.nonce = nonce, !.claimed = address,
                                     !.validBefore = Present(redis, _nonce_key(nonce), now),
                                     !.usedBefore = tokenCount[nonce] > 0,
                                     !.message = res.message, !.expires_at = res.expires])
            /\ lastPrepared' =
                   IF track /\ res.status = 200
                   THEN [requested |-> address, address |-> lower(address), nonce |-> nonce,
                         message |-> res.message, expires |-> res.expires]
                   ELSE lastPrepared
            /\ UNCHANGED <<msgVars, authority, sessVars, userVars, concVars, storeVars, now, redis, issuedAt, tokenCount, tokens>>

SiwePrepare == PrepareRequest("siwe_prepare", ViewFlow, FALSE)
LegacyPrepare == PrepareRequest("legacy_prepare", ViewFlow, FALSE)

\* the signatures a client may send with a text: by either wallet over that
\* text, by the first wallet over another text, or no signature at all
SigsOver(texts) ==
    {BadSig} \cup {SigOf(w, text) : w \in Wallets, text \in texts}

\* the nonce a verify request is about
RequestNonce(req) == IF req.message # NoMsg THEN ParsedOf[req.message].nonce ELSE req.nonce

\* the effect of a verify request req from ip; hold: whether the token is
\* remembered in tokens
VerifyRequest(op, req, ip, view, hold) ==
    /\ authority = "redis"
    /\ RlRoom(RlVerifyKey(ip), RATE_LIMIT_MAX_VERIFY)
    /\ \E res \in {siwe_verify(redis, now, req, ip)}, nonce \in {RequestNonce(req)} :
        /\ redis' = res.redis
        /\ tokens' = IF hold /\ res.status = 200 THEN tokens \cup {res.token} ELSE tokens
        /\ tokenCount' = IF res.status = 200
                         THEN [tokenCount EXCEPT ![res.nonce] = @ + 1] ELSE tokenCount
        /\ last' = Keep(view, [LastIdle EXCEPT
                      !.op = op, !.status = res.status, !.detail = res.detail,
                      !.variant = IF req.message = NoMsg THEN "fields" ELSE "message",
                      !.nonce = nonce,
                      !.claimed = IF req.message = NoMsg THEN req.address
                                  ELSE ParsedOf[req.message].addr,
                      !.recovered = IF res.message = NoMsg THEN NoneStr
                                    ELSE recover_message(res.message, req.signature),
                      !.validBefore = nonce \in NoncePool /\ Present(redis, _nonce_key(nonce), now),
                      !.usedBefore = nonce \in NoncePool /\ tokenCount[nonce] > 0,
                      !.renderable = req.message # NoMsg /\ Renderable(req.message),
                      !.message = res.message, !.token = res.token, !.count = res.count,
                      !.signature = req.signature])
        /\ UNCHANGED <<msgVars, authority, sessVars, userVars, concVars, storeVars, now, issuedAt, lastPrepared>>

FlowShapes == {"exact", "no_expires", "no_nonce"}
\* POST /verify with {message, signature}: the text prepare returned this
\* second or the second before, or a text derived from it
MessageRequests ==
    {[message |-> Msg(sh, a, n, e), signature |-> BadSig, address |-> NoneStr, nonce |-> NoneStr] :
        sh \in FlowShapes, a \in MsgAddr, n \in NoncePool, e \in {now + NONCE_TTL}}
SiweVerifyMessage ==
    \E rq \in MessageRequests :
        \E sig \in SigsOver({rq.message}) :
            VerifyRequest("siwe_verify", [rq EXCEPT !.signature = sig], Ip1, ViewFlow, FALSE)

\* POST /verify with {address, nonce, signature}: the signature is over the
\* text prepare returns this second, or over the one it returned before
FieldRequests ==
    {[message |-> NoMsg, signature |-> BadSig, address |-> a, nonce |-> n] :
        a \in ReqAddr \cup {NoneStr}, n \in NoncePool \cup {NoneStr}}
FieldSigs(rq) ==
    IF rq.address = NoneStr \/ rq.nonce = NoneStr THEN {BadSig}
    ELSE SigsOver({Rendered(rq.address, rq.nonce, now + NONCE_TTL)})
SiweVerifyFields ==
    \E rq \in FieldRequests :
        \E sig \in FieldSigs(rq) :
            VerifyRequest("siwe_verify", [rq EXCEPT !.signature = sig], Ip1, ViewFlow, FALSE)

\* POST /auth/verify: address and nonce are required fields
LegacyVerify ==
    \E rq \in {q \in FieldRequests : q.address # NoneStr /\ q.nonce # NoneStr} :
        \E sig \in FieldSigs(rq) :
            VerifyRequest("legacy_verify", [rq EXCEPT !.signature = sig], Ip1, ViewFlow, FALSE)

Next ==
    \/ Tick
    \/ SiweNonce
    \/ LegacyGetNonce
    \/ SiwePrepare
    \/ LegacyPrepare
    \/ SiweVerifyMessage
    \/ SiweVerifyFields
    \/ LegacyVerify
    \/ CreateNonce
    \/ ValidateAndConsume

Spec == Init /\ [][Next]_vars

\* ------------------------------------------------------------------------
\* SpecToken: tokens are minted and presented to get_current_user
\* ------------------------------------------------------------------------
\* the Authorization headers a client can send: a token a verify handler
\* returned, such a token with its signature altered, a token of the
\* server's key with no subject; with the Bearer prefix or another one
ForgedOf(tok) == [tok EXCEPT !.sig = "forged"]
NoSubjectTokens ==
    {[sub |-> sb, exp |-> now + SESSION_TTL, iat |-> now, sig |-> "server"] : sb \in {NoneStr, <<>>}}
Authorizations ==
    {[scheme |-> sc, token |-> tok] :
        sc \in {"Bearer ", "Basic "},
        tok \in tokens \cup {ForgedOf(k) : k \in tokens} \cup NoSubjectTokens}

Token_SiweNonce == NonceRequest("siwe_nonce", Ip1, ViewToken)
Token_SiweVerify ==
    \E rq \in FieldRequests :
        \E sig \in FieldSigs(rq) :
            VerifyRequest("siwe_verify", [rq EXCEPT !.signature = sig], Ip1, ViewToken, TRUE)

\* a request to a route that depends on get_current_user
GetCurrentUser ==
    \E authorization \in Authorizations :
        \E res \in {get_current_user(authorization, now)} :
            /\ last' = Keep(ViewToken, [LastIdle EXCEPT
                                          !.op = "get_current_user", !.status = res.status,
                                          !.detail = res.detail, !.auth = authorization,
                                          !.sub = res.sub])
            /\ UNCHANGED <<msgVars, authority, sessVars, userVars, concVars, storeVars, now, redis, issuedAt,
                           tokenCount, tokens, lastPrepared>>

NextToken ==
    \/ Tick
    \/ Token_SiweNonce
    \/ Token_SiweVerify
    \/ GetCurrentUser

InitToken == pm = PmIdle /\ InitAuth /\ InitStore /\ InitConc /\ InitSession /\ InitUser /\ authority = "redis"
SpecToken == InitToken /\ [][NextToken]_vars

\* ------------------------------------------------------------------------
\* SpecPrep: a client prepares, signs the message it got, and verifies
\* ------------------------------------------------------------------------
Prep_SiweNonce == NonceRequest("siwe_nonce", Ip1, ViewPrep)
Prep_SiwePrepare == PrepareRequest("siwe_prepare", ViewPrep, TRUE)
Prep_LegacyPrepare == PrepareRequest("legacy_prepare", ViewPrep, TRUE)

\* the wallet whose address a request claims
WalletOf(address) == CHOOSE w \in Wallets : w = lower(address)

\* the client signs the message the last prepare returned, with the wallet
\* it prepared for, and sends the signature with the address and the nonce
\* or with the message
PreparedVerify(op, variant) ==
    /\ lastPrepared # NoPrepared
    /\ \E address \in {a \in ReqAddr : lower(a) = lastPrepared.address} :
        VerifyRequest(op,
                      [message |-> IF variant = "message" THEN lastPrepared.message ELSE NoMsg,
                       address |-> IF variant = "message" THEN NoneStr ELSE address,
                       nonce |-> IF variant = "message" THEN NoneStr ELSE lastPrepared.nonce,
                       signature |-> SigOf(WalletOf(address), lastPrepared.message)],
                      Ip1, ViewPrep, FALSE)

Prep_SiweVerifyFields == PreparedVerify("siwe_verify", "fields")
Prep_SiweVerifyMessage == PreparedVerify("siwe_verify", "message")
Prep_LegacyVerify == PreparedVerify("legacy_verify", "fields")

NextPrep ==
    \/ Tick
    \/ Prep_SiweNonce
    \/ Prep_SiwePrepare
    \/ Prep_LegacyPrepare
    \/ Prep_SiweVerifyFields
    \/ Prep_SiweVerifyMessage
    \/ Prep_LegacyVerify

SpecPrep == InitToken /\ [][NextPrep]_vars

\* ------------------------------------------------------------------------
\* SpecConc: two requests at a time. A handler is a sequence of steps, one
\* per call to the store; steps of different requests interleave (the
\* handlers are plain functions, which FastAPI runs on a thread pool).
\* ------------------------------------------------------------------------
Conc_SiweNonce == NonceRequest("siwe_nonce", Ip1, ViewConc)

Respond(p, op, status, nonce) ==
    /\ procs' = [procs EXCEPT ![p] = ProcIdle]
    /\ last' = Keep(ViewConc, [LastIdle EXCEPT !.op = op, !.status = status, !.nonce = nonce])

\* the verify requests of a client that signed the prepared message: the
\* message variant of siwe_verify, and legacy_verify
ConcRequests ==
    {[op |-> "siwe_verify", message |-> Msg("exact", a, n, now + NONCE_TTL),
      address |-> NoneStr, nonce |-> NoneStr,
      signature |-> SigOf(a, Msg("exact", a, n, now + NONCE_TTL))] :
        a \in MsgAddr, n \in NoncePool}
    \cup
    {[op |-> "legacy_verify", message |-> NoMsg, address |-> a, nonce |-> n,
      signature |-> SigOf(lower(a), Rendered(a, n, now + NONCE_TTL))] :
        a \in MsgAddr, n \in NoncePool}

\* siwe_verify / legacy_verify up to the nonce lookup: _rl, then the address,
\* nonce and message to verify
VerifyEnter(p) ==
    /\ authority = "redis"
    /\ procs[p].pc = "idle"
    /\ RlRoom(RlVerifyKey(Ip1), RATE_LIMIT_MAX_VERIFY)
    /\ \E req \in ConcRequests :
        \E rl \in {_rl(redis, RlVerifyKey(Ip1), RATE_LIMIT_MAX_VERIFY, RATE_LIMIT_WINDOW_SEC, now)},
           head \in {VerifyHead(now, req)} :
            /\ redis' = rl.redis
            /\ IF ~rl.ok THEN Respond(p, req.op, 429, RequestNonce(req))
               ELSE IF head.status # 0 THEN Respond(p, req.op, head.status, RequestNonce(req))
               ELSE /\ procs' = [procs EXCEPT ![p] =
                                    [ProcIdle EXCEPT !.pc = "get", !.op = req.op,
                                                     !.nonce = head.nonce,
                                                     !.address_lc = head.address_lc,
                                                     !.message = head.message,
                                                     !.signature = req.signature]]
                    /\ last' = last
    /\ UNCHANGED <<msgVars, authority, sessVars, userVars, storeVars, rlLog, now, issuedAt, tokenCount, tokens,
                   lastPrepared>>

\* redis_service.get_str(_nonce_key(nonce)), then _verify_sig
VerifyGet(p) ==
    /\ procs[p].pc = "get"
    /\ IF get_str(redis, _nonce_key(procs[p].nonce), now) = NoneInt
       THEN Respond(p, procs[p].op, 400, procs[p].nonce)
       ELSE IF ~_verify_sig(procs[p].address_lc, procs[p].message, procs[p].signature)
       THEN Respond(p, procs[p].op, 401, procs[p].nonce)
       ELSE /\ procs' = [procs EXCEPT ![p].pc = "delete"]
            /\ last' = last
    /\ UNCHANGED <<msgVars, authority, sessVars, userVars, storeVars, rlLog, now, redis, issuedAt, tokenCount,
                   tokens, lastPrepared>>

\* redis_service.delete(_nonce_key(nonce)), then the token and the response
VerifyDelete(p) ==
    /\ procs[p].pc = "delete"
    /\ redis' = delete(redis, _nonce_key(procs[p].nonce))
    /\ tokenCount' = [tokenCount EXCEPT ![procs[p].nonce] = @ + 1]
    /\ Respond(p, procs[p].op, 200, procs[p].nonce)
    /\ UNCHANGED <<msgVars, authority, sessVars, userVars, storeVars, rlLog, now, issuedAt, tokens, lastPrepared>>

\* NonceStore.validate_and_consume: ts = self._data.get(nonce)
ValidateGet(p) ==
    /\ authority = "memory"
    /\ procs[p].pc = "idle"
    /\ \E nonce \in StoreNoncePool :
        IF nonce_store[nonce] = NoneInt
        THEN Respond(p, "validate_and_consume", 400, nonce)
        ELSE /\ procs' = [procs EXCEPT ![p] =
                             [ProcIdle EXCEPT !.pc = "pop", !.op = "validate_and_consume",
                                              !.nonce = nonce, !.ts = nonce_store[nonce]]]
             /\ last' = last
    /\ UNCHANGED <<msgVars, authority, sessVars, userVars, storeVars, rlLog, now, redis, issuedAt, tokenCount,
                   tokens, lastPrepared>>

\* NonceStore.validate_and_consume: the check of the age, and the pop
ValidatePop(p) ==
    /\ procs[p].pc = "pop"
    /\ nonce_store' = pop(nonce_store, procs[p].nonce)
    /\ IF now - procs[p].ts > NonceStore_ttl
       THEN /\ Respond(p, "validate_and_consume", 400, procs[p].nonce)
            /\ storeTrue' = storeTrue
       ELSE /\ Respond(p, "validate_and_consume", 200, procs[p].nonce)
            /\ storeTrue' = [storeTrue EXCEPT ![procs[p].nonce] = @ + 1]
    /\ UNCHANGED <<msgVars, authority, sessVars, userVars, rlLog, storeIssuedAt, now, redis, issuedAt, tokenCount,
                   tokens, lastPrepared>>

NextConc ==
    \/ Tick
    \/ Conc_SiweNonce
    \/ CreateNonce
    \/ \E p \in ProcIds : VerifyEnter(p)
    \/ \E p \in ProcIds : VerifyGet(p)
    \/ \E p \in ProcIds : VerifyDelete(p)
    \/ \E p \in ProcIds : ValidateGet(p)
    \/ \E p \in ProcIds : ValidatePop(p)

SpecConc == Init /\ [][NextConc]_vars

\* ------------------------------------------------------------------------
\* SpecRL: the calls of _rl, each one transaction of Redis (INCR and EXPIRE
\* in a pipeline); concurrent requests are served in some order
\* ------------------------------------------------------------------------
RlClasses ==
    {[key |-> RlNonceKey(Ip1), limit |-> RATE_LIMIT_MAX_NONCE],
     [key |-> RlNonceKey(Ip2), limit |-> RATE_LIMIT_MAX_NONCE],
     [key |-> RlVerifyKey(Ip1), limit |-> RATE_LIMIT_MAX_VERIFY]}

RlCall ==
    /\ Len(rlLog) < MaxRlCalls
    /\ \E c \in RlClasses :
        \E rl \in {_rl(redis, c.key, c.limit, RATE_LIMIT_WINDOW_SEC, now)} :
            /\ redis' = rl.redis
            /\ rlLog' = Append(rlLog, [key |-> c.key, limit |-> c.limit, at |-> now,
                                        fresh |-> ~Present(redis, c.key, now),
                                        ok |-> rl.ok])
    /\ UNCHANGED <<msgVars, authority, sessVars, userVars, storeVars, procs, now, issuedAt, tokenCount, tokens,
                   lastPrepared, last>>

NextRL == Tick \/ RlCall
SpecRL == InitToken /\ [][NextRL]_vars

\* ------------------------------------------------------------------------
\* SpecUser: the follow routes of user_routes.py, one request at a time.
\* current_user is what get_current_user returned, the subject of a token;
\* wallet_address is the path parameter, as the client wrote it.
\* ------------------------------------------------------------------------
PathAddr == {Wallet1, Wallet1Mixed, Wallet2}
ServiceState == [cache |-> user_cache, blobs |-> blobs, env |-> NoFailures, calls |-> NoCalls]
authQuiet == <<msgVars, authority, sessVars, concVars, storeVars, redis, issuedAt, tokenCount, tokens,
               lastPrepared, last>>
authIdle == <<authQuiet, profile_cids>>

\* the blob store is followed up to MaxBlobs documents
BlobRoom(st) == Cardinality(st.blobs) <= MaxBlobs

\* does st differ from the service's state in a pointer or in the blobs
Changed(st) == st.cache # user_cache \/ st.blobs # blobs
\* does the stored profile of follower list target in following
Linked(follower, target) ==
    /\ user_cache[follower] # NoneCid
    /\ user_cache[follower].hash \in blobs
    /\ InList(target, user_cache[follower].hash.following)

\* "Can't follow yourself": wallet_address.lower() == current_user.lower()
MutFollowSelf_CaseSensitive(wallet_address, current_user) == wallet_address = current_user

FollowSelf(wallet_address, current_user) == lower(wallet_address) = lower(current_user)

\* POST /follow/{wallet_address}
FollowUser ==
    \E current_user \in Users, wallet_address \in PathAddr :
        IF FollowSelf(wallet_address, current_user)
        THEN /\ ulast' = [ULastIdle EXCEPT !.op = "follow_user", !.status = 400,
                                           !.current_user = current_user,
                                           !.wallet_address = wallet_address]
             /\ UNCHANGED <<authIdle, now, user_cache, blobs, graph>>
        ELSE \E res \in {follow_user(ServiceState, current_user, lower(wallet_address), now)} :
             /\ BlobRoom(res.st)
             /\ user_cache' = res.st.cache
             /\ blobs' = res.st.blobs
             /\ graph' = IF res.ok
                          THEN [graph EXCEPT ![<<current_user, lower(wallet_address)>>] = "followed"]
                          ELSE graph
             /\ ulast' = [ULastIdle EXCEPT !.op = "follow_user",
                                           !.status = IF res.ok THEN 200 ELSE 500,
                                           !.current_user = current_user,
                                           !.wallet_address = wallet_address,
                                           !.changed = Changed(res.st), !.at = now,
                                           !.linked = Linked(current_user, lower(wallet_address))]
             /\ UNCHANGED <<authIdle, now>>

\* DELETE /follow/{wallet_address}
UnfollowUser ==
    \E current_user \in Users, wallet_address \in PathAddr :
        \E res \in {unfollow_user(ServiceState, current_user, lower(wallet_address), now)} :
            /\ BlobRoom(res.st)
            /\ user_cache' = res.st.cache
            /\ blobs' = res.st.blobs
            /\ graph' = IF res.ok /\ graph[<<current_user, lower(wallet_address)>>] = "followed"
                         THEN [graph EXCEPT ![<<current_user, lower(wallet_address)>>] = "unfollowed"]
                         ELSE graph
            /\ ulast' = [ULastIdle EXCEPT !.op = "unfollow_user",
                                          !.status = IF res.ok THEN 200 ELSE 500,
                                          !.current_user = current_user,
                                          !.wallet_address = wallet_address,
                                          !.changed = Changed(res.st), !.at = now,
                                          !.linked = Linked(current_user, lower(wallet_address))]
            /\ UNCHANGED <<authIdle, now>>

\* GET /followers/{wallet_address}
GetFollowers ==
    \E wallet_address \in PathAddr :
        \E res \in {get_followers(ServiceState, lower(wallet_address), now)} :
            /\ BlobRoom(res.st)
            /\ user_cache' = res.st.cache
            /\ blobs' = res.st.blobs
            /\ ulast' = [ULastIdle EXCEPT !.op = "get_followers", !.status = 200,
                                          !.wallet_address = wallet_address,
                                          !.list = res.list]
            /\ UNCHANGED <<authIdle, now, graph>>

\* GET /following/{wallet_address}
GetFollowing ==
    \E wallet_address \in PathAddr :
        \E res \in {get_following(ServiceState, lower(wallet_address), now)} :
            /\ BlobRoom(res.st)
            /\ user_cache' = res.st.cache
            /\ blobs' = res.st.blobs
            /\ ulast' = [ULastIdle EXCEPT !.op = "get_following", !.status = 200,
                                          !.wallet_address = wallet_address,
                                          !.list = res.list]
            /\ UNCHANGED <<authIdle, now, graph>>

NextUser ==
    \/ Tick
    \/ FollowUser
    \/ UnfollowUser
    \/ GetFollowers
    \/ GetFollowing

SpecUser == InitToken /\ [][NextUser]_vars

\* ------------------------------------------------------------------------
\* SpecStore: user_service and the routes over it while calls to the blob
\* store, the gateway and the pinning service may fail
\* ------------------------------------------------------------------------
AllFail == Rep(FALSE, MaxStoreCalls)
PutOutcomes == {<<>>, <<FALSE>>, <<TRUE, FALSE>>, AllFail}
GetOutcomes == {<<>>, <<FALSE>>, AllFail}
\* the pinning service fails on its own, or along with everything else
Envs == {[put |-> pt, get |-> g, pin |-> <<>>] : pt \in PutOutcomes, g \in GetOutcomes}
            \cup {[put |-> <<>>, get |-> g, pin |-> AllFail] : g \in {<<>>, AllFail}}
            \cup {[put |-> AllFail, get |-> AllFail, pin |-> AllFail]}

\* did one of the n calls made fail; did the last of them
Failed(seq, n) == \E i \in 1..n : i <= Len(seq) /\ ~seq[i]
LastFailed(seq, n) == n >= 1 /\ n <= Len(seq) /\ ~seq[n]
\* the outcome of a request that ran under env and left the service in st
Outcomes(rec, env, st) ==
    [rec EXCEPT !.putFailed = Failed(env.put, st.calls.put),
                !.getFailed = Failed(env.get, st.calls.get),
                !.pinFailed = Failed(env.pin, st.calls.pin),
                !.lastPutFailed = LastFailed(env.put, st.calls.put),
                !.changed = Changed(st),
                !.at = now]
ServiceUnder(env) == [cache |-> user_cache, blobs |-> blobs, env |-> env, calls |-> NoCalls]
StoreRoom(st) == Cardinality(st.blobs) <= MaxStoreBlobs
St_Tick == now < MaxStoreTime /\ Tick

\* the identity whose requests are followed, and the one it follows
StoreUsers == {Wallet1}
StoreTargets == {Wallet2}

\* the profiles save_profile is called with: a new default profile, or a
\* stored profile with a field changed
S_alice == <<"a","l","i","c","e">>
StoredProfiles ==
    {Deserialize(user_cache[w].hash) : w \in {u \in StoreUsers : user_cache[u] # NoneCid}}
SaveArgs ==
    {DefaultProfile(w, now) : w \in StoreUsers}
        \cup {[pr EXCEPT !.username = S_alice] : pr \in StoredProfiles}

\* user_service.save_profile(profile)
SaveProfile ==
    \E env \in Envs, profile \in SaveArgs :
        \E res \in {save_profile(ServiceUnder(env), profile, now)} :
            /\ StoreRoom(res.st)
            /\ user_cache' = res.st.cache
            /\ blobs' = res.st.blobs
            /\ ulast' = Outcomes([ULastIdle EXCEPT
                                     !.op = "save_profile",
                                     !.status = IF res.cid = NoneCid THEN 500 ELSE 200,
                                     !.current_user = profile.wallet_address,
                                     !.profile = profile, !.cid = res.cid,
                                     !.existed = user_cache[profile.wallet_address] # NoneCid,
                                     !.moved = res.st.cache[profile.wallet_address]
                                                   # user_cache[profile.wallet_address]],
                                  env, res.st)
            /\ UNCHANGED <<authIdle, now, graph>>

\* user_service.get_or_create_profile(wallet_address)
GetOrCreateProfile ==
    \E env \in Envs, wallet_address \in StoreUsers :
        \E res \in {get_or_create_profile(ServiceUnder(env), wallet_address, now)} :
            /\ StoreRoom(res.st)
            /\ user_cache' = res.st.cache
            /\ blobs' = res.st.blobs
            /\ ulast' = Outcomes([ULastIdle EXCEPT
                                     !.op = "get_or_create_profile", !.status = 200,
                                     !.current_user = wallet_address,
                                     !.profile = res.profile, !.cid = res.cid,
                                     !.existed = user_cache[wallet_address] # NoneCid,
                                     !.moved = res.st.cache[wallet_address]
                                                   # user_cache[wallet_address]],
                                  env, res.st)
            /\ UNCHANGED <<authIdle, now, graph>>

\* PUT /me with update_data {username, bio, avatar_cid}
UpdateInputs ==
    {[username |-> u, bio |-> NoneStr, avatar_cid |-> NoneStr] : u \in {NoneStr, S_alice}}
UpdateMyProfile ==
    \E env \in Envs, wallet_address \in StoreUsers, update_data \in UpdateInputs :
        \E res \in {update_profile(ServiceUnder(env), wallet_address, update_data.username,
                                    update_data.bio, update_data.avatar_cid, now)} :
            /\ StoreRoom(res.st)
            /\ user_cache' = res.st.cache
            /\ blobs' = res.st.blobs
            /\ ulast' = Outcomes([ULastIdle EXCEPT
                                     !.op = "update_my_profile",
                                     !.status = IF res.cid = NoneCid THEN 500 ELSE 200,
                                     !.current_user = wallet_address,
                                     !.cid = res.cid,
                                     !.existed = user_cache[wallet_address] # NoneCid,
                                     !.moved = res.st.cache[wallet_address]
                                                   # user_cache[wallet_address]],
                                  env, res.st)
            /\ UNCHANGED <<authIdle, now, graph>>

\* POST /follow/{wallet_address} and DELETE /follow/{wallet_address} of one
\* identity on another
St_FollowUser ==
    \E env \in Envs, current_user \in StoreUsers, wallet_address \in StoreTargets :
        \E res \in {follow_user(ServiceUnder(env), current_user, lower(wallet_address), now)} :
            /\ StoreRoom(res.st)
            /\ user_cache' = res.st.cache
            /\ blobs' = res.st.blobs
            /\ ulast' = Outcomes([ULastIdle EXCEPT
                                     !.op = "follow_user",
                                     !.status = IF res.ok THEN 200 ELSE 500,
                                     !.current_user = current_user,
                                     !.wallet_address = wallet_address,
                                     !.linked = Linked(current_user, lower(wallet_address))],
                                  env, res.st)
            /\ UNCHANGED <<authIdle, now, graph>>

St_UnfollowUser ==
    \E env \in Envs, current_user \in StoreUsers, wallet_address \in StoreTargets :
        \E res \in {unfollow_user(ServiceUnder(env), current_user, lower(wallet_address), now)} :
            /\ StoreRoom(res.st)
            /\ user_cache' = res.st.cache
            /\ blobs' = res.st.blobs
            /\ ulast' = Outcomes([ULastIdle EXCEPT
                                     !.op = "unfollow_user",
                                     !.status = IF res.ok THEN 200 ELSE 500,
                                     !.current_user = current_user,
                                     !.wallet_address = wallet_address,
                                     !.linked = Linked(current_user, lower(wallet_address))],
                                  env, res.st)
            /\ UNCHANGED <<authIdle, now, graph>>

NextStore ==
    \/ St_Tick
    \/ SaveProfile
    \/ GetOrCreateProfile
    \/ UpdateMyProfile
    \/ St_FollowUser
    \/ St_UnfollowUser

SpecStore == InitToken /\ [][NextStore]_vars

\* ------------------------------------------------------------------------
\* SpecE2E: a client asks for a nonce, has the message prepared, signs it,
\* verifies with {message, signature} and calls GET /me with the token
\* ------------------------------------------------------------------------
E2E_SiweNonce == NonceRequest("siwe_nonce", Ip1, ViewE2E)
E2E_SiwePrepare == PrepareRequest("siwe_prepare", ViewE2E, TRUE)

\* POST /verify {message, signature}: the prepared message, signed by the
\* wallet it was prepared for
E2E_SiweVerify ==
    /\ lastPrepared # NoPrepared
    /\ VerifyRequest("siwe_verify",
                     [message |-> lastPrepared.message, address |-> NoneStr, nonce |-> NoneStr,
                      signature |-> SigOf(WalletOf(lastPrepared.address), lastPrepared.message)],
                     Ip1, ViewE2E, TRUE)

\* the Authorization headers of the client: none, or Bearer with a token
\* verify returned or with such a token altered
NoAuthorization == [scheme |-> "", token |-> NoToken]
BearerHeaders ==
    {[scheme |-> "Bearer ", token |-> tok] : tok \in tokens \cup {ForgedOf(k) : k \in tokens}}

\* a request that get_current_user turns away
Unauthorized(op, authorization) ==
    /\ ulast' = [ULastIdle EXCEPT !.op = op, !.status = 401, !.at = now]
    /\ UNCHANGED <<user_cache, blobs>>

\* GET /me
GetMyProfile ==
    \E authorization \in BearerHeaders \cup {NoAuthorization} :
        \E user \in {get_current_user(authorization, now)} :
            /\ IF user.status # 200 THEN Unauthorized("get_my_profile", authorization)
               ELSE \E res \in {get_my_profile(ServiceState, user.sub, now)} :
                    /\ BlobRoom(res.st)
                    /\ user_cache' = res.st.cache
                    /\ blobs' = res.st.blobs
                    /\ ulast' = [ULastIdle EXCEPT
                                    !.op = "get_my_profile", !.status = 200,
                                    !.auth = authorization, !.authOk = TRUE,
                                    !.current_user = user.sub, !.profile = res.profile,
                                    !.existed = user_cache[user.sub] # NoneCid,
                                    !.changed = Changed(res.st), !.at = now]
            /\ UNCHANGED <<authIdle, now, graph>>

NextE2E ==
    \/ Tick
    \/ E2E_SiweNonce
    \/ E2E_SiwePrepare
    \/ E2E_SiweVerify
    \/ GetMyProfile

SpecE2E == InitToken /\ [][NextE2E]_vars

\* ------------------------------------------------------------------------
\* SpecLogout: tokens are minted, presented to get_current_user and to
\* POST /logout
\* ------------------------------------------------------------------------
Logout_SiweNonce == NonceRequest("siwe_nonce", Ip1, ViewLogout)
Logout_SiweVerify ==
    \E nonce \in NoncePool, signer \in Wallets :
        VerifyRequest("siwe_verify",
                      [message |-> NoMsg, address |-> Wallet1Mixed, nonce |-> nonce,
                       signature |-> SigOf(signer,
                                           Rendered(Wallet1Mixed, nonce, now + NONCE_TTL))],
                      Ip1, ViewLogout, TRUE)

Logout_GetCurrentUser ==
    \E authorization \in Authorizations :
        \E res \in {get_current_user(authorization, now)} :
            /\ last' = Keep(ViewLogout, [LastIdle EXCEPT
                                           !.op = "get_current_user", !.status = res.status,
                                           !.auth = authorization, !.sub = res.sub])
            /\ UNCHANGED <<msgVars, authority, sessVars, userVars, concVars, storeVars, now, redis, issuedAt,
                           tokenCount, tokens, lastPrepared>>

\* POST /logout; sub: what get_current_user answers to the same header
\* once the logout is done
SiweLogout ==
    \E authorization \in Authorizations \cup {NoAuthorization} :
        \E res \in {siwe_logout(redis, authorization, now)} :
            /\ redis' = res.redis
            /\ last' = Keep(ViewLogout, [LastIdle EXCEPT
                                           !.op = "siwe_logout",
                                           !.status = 200,
                                           !.ok = res.ok,
                                           !.auth = authorization,
                                           !.sub = get_current_user(authorization, now).sub,
                                           !.changed = res.redis # redis])
            /\ UNCHANGED <<msgVars, authority, sessVars, userVars, concVars, storeVars, now, issuedAt,
                           tokenCount, tokens, lastPrepared>>

NextLogout ==
    \/ Tick
    \/ Logout_SiweNonce
    \/ Logout_SiweVerify
    \/ Logout_GetCurrentUser
    \/ SiweLogout

SpecLogout == InitToken /\ [][NextLogout]_vars

\* ------------------------------------------------------------------------
\* SpecAccess: every profile route the application registers, called with
\* and without a credential.  Tokens come from GET /nonce and POST /verify;
\* the requests of a run are made within one second (the expiry of a token is
\* followed in SpecToken).
\* ------------------------------------------------------------------------
ViewAcc == {"op", "status"}
Acc_SiweNonce == NonceRequest("siwe_nonce", Ip1, ViewAcc)
\* POST /verify {address, nonce, signature} by the first wallet, which signs
\* the message the handler rebuilds
Acc_SiweVerify ==
    \E nonce \in NoncePool :
        VerifyRequest("siwe_verify",
                      [message |-> NoMsg, address |-> Wallet1Mixed, nonce |-> nonce,
                       signature |-> SigOf(Wallet1,
                                           Rendered(Wallet1Mixed, nonce, now + NONCE_TTL))],
                      Ip1, ViewAcc, TRUE)

AccHeaders == BearerHeaders \cup {NoAuthorization}
AccTargets == {Wallet1Mixed, Wallet2}
AccRoom(st) == Cardinality(st.blobs) <= MaxStoreBlobs

\* PUT /me
Acc_UpdateMyProfile ==
    \E authorization \in AccHeaders :
        \E user \in {get_current_user(authorization, now)} :
            /\ IF user.status # 200 THEN Unauthorized("update_my_profile", authorization)
               ELSE \E res \in {update_profile(ServiceState, user.sub, S_alice, NoneStr, NoneStr, now)} :
                    /\ AccRoom(res.st)
                    /\ user_cache' = res.st.cache
                    /\ blobs' = res.st.blobs
                    /\ ulast' = [ULastIdle EXCEPT
                                    !.op = "update_my_profile",
                                    !.status = IF res.cid = NoneCid THEN 500 ELSE 200,
                                    !.authOk = TRUE,
                                    !.current_user = user.sub, !.cid = res.cid,
                                    !.changed = Changed(res.st), !.at = now]
            /\ UNCHANGED <<authIdle, now, graph>>

\* GET /{wallet_address}
GetUserProfile ==
    \E authorization \in AccHeaders, wallet_address \in AccTargets :
        \E user \in {get_current_user(authorization, now)} :
            /\ IF user.status # 200 THEN Unauthorized("get_user_profile", authorization)
               ELSE \E res \in {get_profile(ServiceState, lower(wallet_address))} :
                    /\ ulast' = [ULastIdle EXCEPT
                                    !.op = "get_user_profile",
                                    !.status = IF res.profile = NoneDoc THEN 404 ELSE 200,
                                    !.authOk = TRUE,
                                    !.current_user = user.sub,
                                    !.wallet_address = wallet_address,
                                    !.profile = res.profile, !.at = now]
                    /\ UNCHANGED <<user_cache, blobs>>
            /\ UNCHANGED <<authIdle, now, graph>>

\* POST /follow/{wallet_address}
Acc_FollowUser ==
    \E authorization \in AccHeaders, wallet_address \in AccTargets :
        \E user \in {get_current_user(authorization, now)} :
            IF user.status # 200
            THEN Unauthorized("follow_user", authorization) /\ UNCHANGED <<authIdle, now, graph>>
            ELSE IF FollowSelf(wallet_address, user.sub)
            THEN /\ ulast' = [ULastIdle EXCEPT !.op = "follow_user", !.status = 400,
                                               !.authOk = TRUE,
                                               !.current_user = user.sub,
                                               !.wallet_address = wallet_address, !.at = now]
                 /\ UNCHANGED <<authIdle, now, user_cache, blobs, graph>>
            ELSE \E res \in {follow_user(ServiceState, user.sub, lower(wallet_address), now)} :
                 /\ AccRoom(res.st)
                 /\ user_cache' = res.st.cache
                 /\ blobs' = res.st.blobs
                 /\ graph' = IF res.ok
                              THEN [graph EXCEPT ![<<user.sub, lower(wallet_address)>>] = "followed"]
                              ELSE graph
                 /\ ulast' = [ULastIdle EXCEPT !.op = "follow_user",
                                               !.status = IF res.ok THEN 200 ELSE 500,
                                               !.authOk = TRUE,
                                               !.current_user = user.sub,
                                               !.wallet_address = wallet_address,
                                               !.changed = Changed(res.st), !.at = now]
                 /\ UNCHANGED <<authIdle, now>>

\* DELETE /follow/{wallet_address}
Acc_UnfollowUser ==
    \E authorization \in AccHeaders, wallet_address \in AccTargets :
        \E user \in {get_current_user(authorization, now)} :
            IF user.status # 200
            THEN Unauthorized("unfollow_user", authorization) /\ UNCHANGED <<authIdle, now, graph>>
            ELSE \E res \in {unfollow_user(ServiceState, user.sub, lower(wallet_address), now)} :
                 /\ AccRoom(res.st)
                 /\ user_cache' = res.st.cache
                 /\ blobs' = res.st.blobs
                 /\ graph' = IF res.ok /\ graph[<<user.sub, lower(wallet_address)>>] = "followed"
                              THEN [graph EXCEPT ![<<user.sub, lower(wallet_address)>>] = "unfollowed"]
                              ELSE graph
                 /\ ulast' = [ULastIdle EXCEPT !.op = "unfollow_user",
                                               !.status = IF res.ok THEN 200 ELSE 500,
                                               !.authOk = TRUE,
                                               !.current_user = user.sub,
                                               !.wallet_address = wallet_address,
                                               !.changed = Changed(res.st), !.at = now]
                 /\ UNCHANGED <<authIdle, now>>

\* GET /followers/{wallet_address} and GET /following/{wallet_address}
ListRequest(op, authorization, wallet_address, res) ==
    /\ AccRoom(res.st)
    /\ user_cache' = res.st.cache
    /\ blobs' = res.st.blobs
    /\ ulast' = [ULastIdle EXCEPT !.op = op, !.status = 200,
                                  !.authOk = TRUE,
                                  !.wallet_address = wallet_address,
                                  !.list = res.list,
                                  !.changed = Changed(res.st), !.at = now]

Acc_GetFollowers ==
    \E authorization \in AccHeaders, wallet_address \in AccTargets :
        \E user \in {get_current_user(authorization, now)} :
            /\ IF user.status # 200 THEN Unauthorized("get_followers", authorization)
               ELSE ListRequest("get_followers", authorization, wallet_address,
                                get_followers(ServiceState, lower(wallet_address), now))
            /\ UNCHANGED <<authIdle, now, graph>>

Acc_GetFollowing ==
    \E authorization \in AccHeaders, wallet_address \in AccTargets :
        \E user \in {get_current_user(authorization, now)} :
            /\ IF user.status # 200 THEN Unauthorized("get_following", authorization)
               ELSE ListRequest("get_following", authorization, wallet_address,
                                get_following(ServiceState, lower(wallet_address), now))
            /\ UNCHANGED <<authIdle, now, graph>>

\* the dicts a client posts to /profile
PostedProfiles ==
    {Serialize([DefaultProfile(Wallet2, 0) EXCEPT !.username = S_alice])}

\* redis_service.get_str(_profile_cid_key(address))
MutProfileCid_NoExpiry(address, t) == profile_cids[address].val

ProfileCid(address, t) ==
    IF profile_cids[address].val # NoneCid /\ t < profile_cids[address].exp
    THEN profile_cids[address].val ELSE NoneCid

\* POST /profile (auth_routes.set_profile): no dependency on get_current_user;
\* authorization is what the client sent along, which the handler never reads
SetProfile ==
    \E authorization \in AccHeaders, address \in AccTargets, profile \in PostedProfiles :
        \E res \in {add_json(blobs, profile, TRUE)} :
            /\ Cardinality(res.blobs) <= MaxStoreBlobs
            /\ blobs' = res.blobs
            /\ profile_cids' =
                   [profile_cids EXCEPT ![lower(address)] =
                        [val |-> res.cid, exp |-> now + PROFILE_CID_TTL]]
            /\ ulast' = [ULastIdle EXCEPT
                            !.op = "set_profile", !.status = 200,
                            !.authOk = get_current_user(authorization, now).status = 200,
                            !.wallet_address = address, !.cid = res.cid,
                            !.changed = TRUE, !.at = now]
            /\ UNCHANGED <<authQuiet, now, user_cache, graph>>

\* GET /profile/{address} (auth_routes.get_profile): no dependency either
GetProfile ==
    \E authorization \in AccHeaders, address \in AccTargets :
        \E cid \in {ProfileCid(lower(address), now)} :
            /\ ulast' = [ULastIdle EXCEPT
                            !.op = "get_profile",
                            !.status = IF cid = NoneCid THEN 404 ELSE 200,
                            !.authOk = get_current_user(authorization, now).status = 200,
                            !.wallet_address = address, !.cid = cid,
                            !.profile = IF cid = NoneCid THEN NoneDoc
                                        ELSE get_json(blobs, cid, TRUE),
                            !.at = now]
            /\ UNCHANGED <<authIdle, now, user_cache, blobs, graph>>

NextAccess ==
    \/ Acc_SiweNonce
    \/ Acc_SiweVerify
    \/ GetMyProfile
    \/ Acc_UpdateMyProfile
    \/ GetUserProfile
    \/ Acc_FollowUser
    \/ Acc_UnfollowUser
    \/ Acc_GetFollowers
    \/ Acc_GetFollowing
    \/ SetProfile
    \/ GetProfile

SpecAccess == InitToken /\ [][NextAccess]_vars

\* ------------------------------------------------------------------------
\* SpecPointer: the two profile pointers over time: user_service.user_cache,
\* set by the follow routes, and the CID cache of POST /profile and
\* GET /profile/{address}
\* ------------------------------------------------------------------------
NextPointer ==
    \/ Tick
    \/ FollowUser
    \/ GetFollowers
    \/ SetProfile
    \/ GetProfile

SpecPointer == InitToken /\ [][NextPointer]_vars

\* ------------------------------------------------------------------------
\* SpecSession: the cookie sessions of siwe_store.SessionStore and
\* session_middleware.py, one call at a time
\* ------------------------------------------------------------------------
sessQuiet == <<msgVars, authority, concVars, storeVars, userVars, now, redis, issuedAt,
               tokenCount, tokens, lastPrepared, last>>

\* SessionStore.create_session(address)
CreateSession ==
    \E address \in ReqAddr \cup Wallets, sid \in {FreshNonceOf(SessionSeq, sessCreated)} :
        /\ sid # NoneStr
        /\ session_store' = create_session(session_store, sid, address, now)
        /\ sessCreated' = [sessCreated EXCEPT ![sid] = now]
        /\ slast' = [SLastIdle EXCEPT !.op = "create_session", !.sid = sid, !.at = now,
                                       !.session = session_store'[sid]]
        /\ UNCHANGED <<sessQuiet, sessGone, cookies>>

\* set_session_cookie(response, sid), for a session that was created
SetSessionCookie ==
    \E sid \in {x \in SessionPool : sessCreated[x] # NoneInt} :
        /\ cookies' = cookies \cup {sign(sid, now)}
        /\ slast' = [SLastIdle EXCEPT !.op = "set_session_cookie", !.sid = sid, !.at = now,
                                       !.cookie = sign(sid, now)]
        /\ UNCHANGED <<sessQuiet, session_store, sessCreated, sessGone>>

\* the session of sid exists and is older than the ttl
SeenExpired(sid) ==
    /\ sid \in SessionPool
    /\ session_store[sid] # NoSession
    /\ now - sessCreated[sid] > SessionStore_ttl

\* SessionStore.get_session(sid)
GetSession ==
    \E sid \in SessionPool :
        \E g \in {get_session(session_store, sid, now)} :
            /\ session_store' = g.sessions
            /\ sessGone' = IF SeenExpired(sid) THEN [sessGone EXCEPT ![sid] = TRUE] ELSE sessGone
            /\ slast' = [SLastIdle EXCEPT !.op = "get_session", !.sid = sid, !.at = now,
                                           !.session = g.data,
                                           !.existedBefore = session_store[sid] # NoSession]
            /\ UNCHANGED <<sessQuiet, sessCreated, cookies>>

\* SessionStore.destroy(sid)
Destroy ==
    \E sid \in SessionPool :
        /\ session_store' = destroy(session_store, sid)
        /\ sessGone' = IF sessCreated[sid] # NoneInt
                        THEN [sessGone EXCEPT ![sid] = TRUE] ELSE sessGone
        /\ slast' = [SLastIdle EXCEPT !.op = "destroy", !.sid = sid, !.at = now,
                                       !.existedBefore = session_store[sid] # NoSession]
        /\ UNCHANGED <<sessQuiet, sessCreated, cookies>>

\* the cookies a request can carry: none, one the server has signed, one
\* signed with another key, and a signed one with its timestamp rewritten
RequestCookies ==
    {NoCookie} \cup cookies
        \cup {[sid |-> sid, ts |-> now, mac |-> Mac("other", sid, now)] : sid \in SessionPool}
        \cup {[c EXCEPT !.ts = now] : c \in cookies}

\* a request to a route that depends on deps.get_current_user, behind
\* SessionMiddleware
SessionRequest ==
    \E raw \in RequestCookies :
        \E d \in {dispatch(session_store, raw, now)} :
            /\ session_store' = d.sessions
            /\ sessGone' = IF raw \in cookies /\ now - raw.ts <= SessionStore_ttl
                                /\ SeenExpired(raw.sid)
                            THEN [sessGone EXCEPT ![raw.sid] = TRUE] ELSE sessGone
            /\ slast' = [SLastIdle EXCEPT
                            !.op = "request", !.cookie = raw, !.sid = raw.sid, !.at = now,
                            !.status = deps_get_current_user(d.session).status,
                            !.session = deps_get_current_user(d.session).session,
                            !.existedBefore = /\ raw.sid \in SessionPool
                                              /\ session_store[raw.sid] # NoSession]
            /\ UNCHANGED <<sessQuiet, sessCreated, cookies>>

NextSession ==
    \/ Tick
    \/ CreateSession
    \/ SetSessionCookie
    \/ GetSession
    \/ Destroy
    \/ SessionRequest

SpecSession == InitToken /\ [][NextSession]_vars

\* ------------------------------------------------------------------------
\* SpecMsg: render and parse as functions of their arguments
\* ------------------------------------------------------------------------
InitMsg ==
    /\ InitAuth /\ InitStore /\ InitConc /\ InitSession /\ InitUser /\ authority = "redis"
    /\ \E a \in ReqAddr \cup Wallets, n \in NoncePool, e \in 0..MaxExpiry, sh \in Shapes :
        pm = [PmIdle EXCEPT !.phase = "args", !.shape = sh, !.address = a,
                            !.nonce = n, !.expires = e]

RenderStep ==
    /\ pm.phase = "args"
    /\ pm' = [pm EXCEPT !.phase = "message",
                        !.message = ShapedMessage(pm.shape, pm.address, pm.nonce, pm.expires)]
    /\ UNCHANGED <<authVars, storeVars, authority, sessVars, concVars, userVars>>

ParseStep ==
    /\ pm.phase = "message"
    /\ pm' = [pm EXCEPT !.phase = "parsed",
                        !.out = _parse_prepared_message(pm.message)]
    /\ UNCHANGED <<authVars, storeVars, authority, sessVars, concVars, userVars>>

NextMsg == RenderStep \/ ParseStep
SpecMsg == InitMsg /\ [][NextMsg]_vars

\* C6: parsing the message rendered from (address, nonce, expiry) returns
\* exactly (lowercase address, nonce, expiry).
C6_RoundTrip ==
    (pm.phase = "parsed" /\ pm.shape = "exact") =>
        pm.out = [addr |-> Lower(pm.address), nonce |-> pm.nonce, expires |-> pm.expires]

C6_Witness ==
    /\ pm.phase = "parsed" /\ pm.shape = "exact"
    /\ pm.address = Wallet1Mixed /\ pm.expires = 100
    /\ pm.out.addr = Wallet1

\* ------------------------------------------------------------------------
\* Properties of the token flow (Spec)
\* ------------------------------------------------------------------------
VerifyOps == {"siwe_verify", "legacy_verify"}
PrepareOps == {"siwe_prepare", "legacy_prepare"}
InvalidNonce == last.status = 400 /\ last.detail = "Invalid or expired nonce"
RateLimited == last.status = 429
\* the signature of the last verify request is the claimed address's own
SignatureMatches ==
    /\ last.recovered # NoneStr
    /\ Lower(last.recovered) = Lower(last.claimed)

\* C2: after a verify has succeeded with a nonce (or validate_and_consume has
\* returned True for it), every later verify / validate_and_consume with
\* that nonce is rejected as an invalid nonce, whatever the address and the
\* signature (the request names an address and the nonce); a request over
\* the rate limit is turned away before that.
C2_ConsumedRejected ==
    /\ (last.op \in VerifyOps /\ last.claimed # NoneStr /\ last.usedBefore) =>
           /\ last.token = NoToken
           /\ InvalidNonce \/ RateLimited
    /\ (last.op = "validate_and_consume" /\ last.usedBefore) => ~last.ok
    /\ \A n \in NoncePool : tokenCount[n] <= 1
    /\ \A n \in StoreNoncePool : storeTrue[n] <= 1

C2_Witness ==
    /\ last.op \in VerifyOps /\ last.usedBefore
    /\ SignatureMatches
    /\ InvalidNonce

\* C3: a nonce that was issued and never consumed is rejected by verify, by
\* prepare and by validate_and_consume at every time after its TTL has elapsed.
RedisNonceElapsed(n) ==
    /\ n \in NoncePool
    /\ issuedAt[n] # NoneInt
    /\ now > issuedAt[n] + NONCE_TTL
StoreNonceElapsed(n) ==
    /\ n \in StoreNoncePool
    /\ storeIssuedAt[n] # NoneInt
    /\ now > storeIssuedAt[n] + NonceStore_ttl
C3_ExpiredRejected ==
    /\ (/\ last.op \in VerifyOps \cup PrepareOps
        /\ last.claimed # NoneStr
        /\ ~last.usedBefore
        /\ RedisNonceElapsed(last.nonce)) =>
           /\ last.token = NoToken
           /\ InvalidNonce \/ RateLimited
    /\ (last.op = "validate_and_consume" /\ ~last.usedBefore /\ StoreNonceElapsed(last.nonce)) =>
           ~last.ok

C3_Witness ==
    /\ last.op \in VerifyOps /\ ~last.usedBefore /\ RedisNonceElapsed(last.nonce)
    /\ SignatureMatches
    /\ InvalidNonce

\* C4: with a valid unconsumed nonce and within the rate limit, verify issues
\* a token iff the address recovered from (message, signature) equals the
\* claimed address compared in lowercase; any other signature gets 401 and
\* no token; the subject of an issued token is the lowercase recovered address.
C4_Case ==
    /\ last.op \in VerifyOps
    /\ last.validBefore
    /\ last.claimed # NoneStr
    /\ ~RateLimited
C4_TokenIffSigner ==
    C4_Case =>
        /\ last.status = 200 <=> SignatureMatches
        /\ last.status = 200 => last.token # NoToken /\ last.token.sub = Lower(last.recovered)
        /\ ~SignatureMatches =>
               last.status = 401 /\ last.detail = "Signature invalid" /\ last.token = NoToken

C4_Witness ==
    /\ C4_Case
    /\ last.claimed = Wallet1Mixed
    /\ last.status = 200
    /\ last.token.sub = Wallet1

\* C7: verify in the message variant rejects with 400, and without a token,
\* every message that is not exactly a string the renderer can produce.
C7_FailsClosed ==
    (last.op = "siwe_verify" /\ last.variant = "message" /\ ~last.renderable /\ ~RateLimited) =>
        /\ last.status = 400
        /\ last.token = NoToken

\* C5: a token minted by verify at time t for subject s carries sub = s,
\* iat = t and exp = t + SESSION_TTL; get_current_user returns s for it at
\* every time strictly before exp and answers 401 at or after exp, and 401 to
\* a header without the Bearer prefix, a token with a bad signature and a
\* token without a subject.
C5_Minted ==
    (last.op \in VerifyOps /\ last.status = 200) =>
        /\ last.token = [sub |-> Lower(last.claimed), exp |-> now + SESSION_TTL,
                         iat |-> now, sig |-> "server"]
        /\ last.token \in tokens
C5_Presented ==
    last.op = "get_current_user" =>
        /\ (last.auth.scheme = "Bearer " /\ last.auth.token \in tokens) =>
               IF now < last.auth.token.exp
               THEN last.status = 200 /\ last.sub = last.auth.token.sub
               ELSE last.status = 401 /\ last.sub = NoneStr
        /\ (\/ last.auth.scheme # "Bearer "
            \/ last.auth.token.sig # "server"
            \/ Falsy(last.auth.token.sub)) =>
               last.status = 401 /\ last.sub = NoneStr
C5_TokenLifetime == C5_Minted /\ C5_Presented

C5_Witness ==
    /\ last.op = "get_current_user"
    /\ last.auth.scheme = "Bearer " /\ last.auth.token \in tokens
    /\ now = last.auth.token.exp
    /\ last.status = 401

\* C8: the message verify regenerates in the {address, nonce, signature}
\* variant is the message prepare returned for the same address and nonce,
\* whatever time passed in between while the nonce is valid; a signature
\* over the prepared message is accepted by both variants.
C8_Case ==
    /\ last.op \in VerifyOps
    /\ last.validBefore
    /\ ~RateLimited
    /\ lastPrepared # NoPrepared
    /\ last.nonce = lastPrepared.nonce
    /\ last.signature = SigOf(lastPrepared.address, lastPrepared.message)
C8_SameMessage ==
    C8_Case =>
        /\ last.message = lastPrepared.message
        /\ last.status = 200

\* C1: of the verify requests (or validate_and_consume calls) that run
\* concurrently with the same valid nonce and valid signatures, exactly one
\* succeeds: no nonce ever yields two tokens.
C1_OneSuccessPerNonce ==
    /\ \A n \in NoncePool : tokenCount[n] <= 1
    /\ \A n \in StoreNoncePool : storeTrue[n] <= 1

\* C9: among the requests of one client key and class within one window
\* (the RATE_LIMIT_WINDOW_SEC seconds from a request that found no counter)
\* the first limit are admitted and the next is rejected; no more than limit
\* requests are admitted in any RATE_LIMIT_WINDOW_SEC seconds.
SameKey(i, j) == rlLog[i].key = rlLog[j].key
\* the request that began the window request i falls into
WindowStart(i) ==
    CHOOSE j \in 1..i :
        /\ SameKey(i, j) /\ rlLog[j].fresh
        /\ \A k \in (j + 1)..i : SameKey(i, k) => ~rlLog[k].fresh
\* the position of request i among the requests of its window
RankInWindow(i) == Cardinality({k \in WindowStart(i)..i : SameKey(i, k)})
C9_FirstLimitAdmitted ==
    \A i \in DOMAIN rlLog :
        rlLog[i].at < rlLog[WindowStart(i)].at + RATE_LIMIT_WINDOW_SEC =>
            (rlLog[i].ok <=> RankInWindow(i) <= rlLog[i].limit)
C9_AtMostLimit ==
    \A i \in DOMAIN rlLog :
        Cardinality({k \in DOMAIN rlLog :
                        /\ SameKey(i, k) /\ rlLog[k].ok
                        /\ rlLog[k].at >= rlLog[i].at
                        /\ rlLog[k].at < rlLog[i].at + RATE_LIMIT_WINDOW_SEC}) <= rlLog[i].limit
C9_RateLimit == C9_FirstLimitAdmitted /\ C9_AtMostLimit

C9_Witness ==
    \E i \in DOMAIN rlLog :
        /\ rlLog[i].key = RlVerifyKey(Ip1)
        /\ RankInWindow(i) = RATE_LIMIT_MAX_VERIFY + 1
        /\ rlLog[i].at < rlLog[WindowStart(i)].at + RATE_LIMIT_WINDOW_SEC
        /\ ~rlLog[i].ok

\* C10: with no store failures, for distinct identities A and B: after
\* follow(A,B), get_followers(B) contains A and get_following(A) contains B;
\* after a subsequent unfollow(A,B), get_followers(B) does not contain A and
\* get_following(A) does not contain B.
ListOf == {ulast.list[i] : i \in DOMAIN ulast.list}
Listed(a, b, present) ==
    /\ graph[<<a, b>>] = "followed" => present
    /\ graph[<<a, b>>] = "unfollowed" => ~present
C10_FollowUnfollow ==
    /\ ulast.op = "get_followers" =>
           \A a \in Users \ {Lower(ulast.wallet_address)} :
               Listed(a, Lower(ulast.wallet_address), a \in ListOf)
    /\ ulast.op = "get_following" =>
           \A b \in Users \ {Lower(ulast.wallet_address)} :
               Listed(Lower(ulast.wallet_address), b, b \in ListOf)

C10_Witness ==
    /\ ulast.op = "get_followers"
    /\ ulast.wallet_address = Wallet1Mixed
    /\ graph[<<Wallet2, Wallet1>>] = "unfollowed"
    /\ graph[<<Wallet1, Wallet2>>] = "followed"
    /\ ListOf = {}

\* C11: a follow request whose target is the caller's own identity, compared
\* case-insensitively, is answered 400 and changes no blob and no pointer.
C11_SelfFollowRejected ==
    (ulast.op = "follow_user" /\ Lower(ulast.wallet_address) = Lower(ulast.current_user)) =>
        /\ ulast.status = 400
        /\ ~ulast.changed

C11_Witness ==
    /\ ulast.op = "follow_user"
    /\ ulast.current_user = Wallet1 /\ ulast.wallet_address = Wallet1Mixed
    /\ ulast.status = 400
    /\ user_cache[Wallet1] # NoneCid

\* C12: whenever A does not currently follow B (also when A or B has no
\* profile yet, and when unfollow is applied twice in a row), unfollow(A,B)
\* succeeds and leaves every profile and pointer unchanged.
C12_UnfollowIdempotent ==
    (ulast.op = "unfollow_user" /\ ~ulast.linked) =>
        /\ ulast.status = 200
        /\ ~ulast.changed

\* ------------------------------------------------------------------------
\* Properties of the profile store under store failures (SpecStore)
\* ------------------------------------------------------------------------
\* the pointer of the identity of the last request, and the document a
\* gateway read of it returns
PointerOf == user_cache[ulast.current_user]
PointedDoc == get_json(blobs, PointerOf, TRUE)

\* C13: the CID a call of save_profile returns resolves in the blob store to
\* the serialization of the saved document with its updated timestamp (and
\* its created_at as it was), and the identity's pointer is that CID; a call
\* whose blob write fails returns None and leaves the pointer as it was.
C13_SaveFetchable ==
    ulast.op = "save_profile" =>
        IF ulast.cid # NoneCid
        THEN /\ get_json(blobs, ulast.cid, TRUE)
                    = Serialize([ulast.profile EXCEPT !.updated_at = ulast.at])
             /\ PointerOf = ulast.cid
             /\ Deserialize(PointedDoc) = [ulast.profile EXCEPT !.updated_at = ulast.at]
        ELSE ulast.putFailed /\ ~ulast.moved

C13_Witness ==
    /\ ulast.op = "save_profile" /\ ulast.cid # NoneCid
    /\ ulast.existed /\ ulast.moved
    /\ ulast.profile.created_at = 0 /\ ulast.profile.updated_at = 0 /\ ulast.at = 1
    /\ ulast.profile.username = S_alice
    /\ PointedDoc.updated_at = isoformat(1) /\ PointedDoc.created_at = isoformat(0)

\* C18: get_or_create_profile builds and persists a default document only
\* when the identity has no pointer; when a pointer exists the call leaves
\* it unchanged and returns the document it points to.
C18_CreateOnlyIfAbsent ==
    ulast.op = "get_or_create_profile" =>
        /\ ulast.existed =>
               /\ ~ulast.moved
               /\ ulast.profile = Deserialize(PointedDoc)
        /\ (~ulast.existed /\ ~ulast.putFailed) =>
               /\ ulast.profile = DefaultProfile(ulast.current_user, ulast.at)
               /\ PointerOf = CidOf(Serialize(DefaultProfile(ulast.current_user, ulast.at)))

\* C19: when the blob writes of a request succeed and a pin call fails,
\* save_profile returns the new CID and repoints the identity to it, and
\* PUT /me, follow and unfollow succeed.
C19_PinNotFatal ==
    (ulast.pinFailed /\ ~ulast.putFailed) =>
        /\ ulast.status = 200
        /\ ulast.op \in {"save_profile", "update_my_profile", "get_or_create_profile"} =>
               ulast.cid # NoneCid /\ PointerOf = ulast.cid
        /\ ulast.op = "follow_user" =>
               Linked(ulast.current_user, Lower(ulast.wallet_address))
        /\ ulast.op = "unfollow_user" =>
               ~Linked(ulast.current_user, Lower(ulast.wallet_address))

C19_Witness ==
    /\ ulast.op = "update_my_profile"
    /\ ulast.pinFailed /\ ~ulast.putFailed /\ ~ulast.getFailed
    /\ ulast.existed /\ ulast.moved
    /\ ulast.status = 200
    /\ PointedDoc.username = S_alice

\* C20 as stated: when the blob write fails during PUT /me the request fails
\* with 500 and the identity's pointer is the same CID as before.
C20_WriteFailure500 ==
    (ulast.op = "update_my_profile" /\ ulast.lastPutFailed) =>
        /\ ulast.status = 500
        /\ ~ulast.moved

\* C20: PUT /me fails with 500 exactly when the write of the updated
\* document (the last write of the request) fails; the pointer is then the
\* same CID as before if the identity's profile was read at the start of the
\* request, and otherwise the same or that of the default document
\* get_or_create_profile has just written.
C20_LastWriteFailure500 ==
    ulast.op = "update_my_profile" =>
        /\ ulast.status = 500 <=> ulast.lastPutFailed
        /\ ulast.status = 200 => ulast.cid # NoneCid /\ PointerOf = ulast.cid
        /\ (ulast.lastPutFailed /\ ulast.existed /\ ~ulast.getFailed) => ~ulast.moved
        /\ (ulast.lastPutFailed /\ ulast.moved) =>
               PointerOf = CidOf(Serialize(DefaultProfile(ulast.current_user, ulast.at)))

C20_Witness ==
    /\ ulast.op = "update_my_profile"
    /\ ulast.lastPutFailed /\ ulast.existed /\ ~ulast.getFailed
    /\ ulast.status = 500 /\ ~ulast.moved
    /\ PointedDoc.username = S_alice

\* C16: the nonce checks make no difference between a nonce never issued, an
\* expired one and a consumed one: prepare and verify answer each with the
\* same 400 "Invalid or expired nonce" and no token or message, and
\* validate_and_consume answers each with False.
RedisNonceGone(n) ==
    \/ issuedAt[n] = NoneInt
    \/ last.usedBefore
    \/ now >= issuedAt[n] + NONCE_TTL
StoreNonceGone(n) ==
    \/ storeIssuedAt[n] = NoneInt
    \/ last.usedBefore
    \/ now - storeIssuedAt[n] > NonceStore_ttl
C16_SameRejection ==
    /\ (/\ last.op \in VerifyOps \cup PrepareOps
        /\ last.claimed # NoneStr
        /\ last.nonce \in NoncePool
        /\ ~RateLimited
        /\ RedisNonceGone(last.nonce)) =>
           /\ last.status = 400
           /\ last.detail = "Invalid or expired nonce"
           /\ last.token = NoToken
           /\ ~last.validBefore
    /\ (/\ last.op = "validate_and_consume"
        /\ last.nonce \in StoreNoncePool
        /\ StoreNonceGone(last.nonce)) => ~last.ok

C16_Witness ==
    /\ last.op \in PrepareOps
    /\ last.nonce \in NoncePool
    /\ last.usedBefore
    /\ InvalidNonce
    /\ \E n \in NoncePool : issuedAt[n] = NoneInt

\* C17: the time at which an issued nonce stops being accepted is fixed when
\* it is issued: the expiry stored with it never changes, and an issued,
\* unconsumed nonce is refused exactly from issue time + TTL on (Redis) or
\* after issue time + ttl (NonceStore), whatever happened in between.
C17_FixedExpiry ==
    /\ \A n \in NoncePool :
           redis[_nonce_key(n)] # Absent =>
               /\ issuedAt[n] # NoneInt
               /\ redis[_nonce_key(n)].exp = issuedAt[n] + NONCE_TTL
    /\ \A n \in StoreNoncePool :
           nonce_store[n] # NoneInt => nonce_store[n] = storeIssuedAt[n]
    /\ (/\ last.op \in VerifyOps \cup PrepareOps
        /\ last.claimed # NoneStr
        /\ last.nonce \in NoncePool
        /\ issuedAt[last.nonce] # NoneInt
        /\ ~last.usedBefore
        /\ ~RateLimited) =>
           (InvalidNonce <=> now >= issuedAt[last.nonce] + NONCE_TTL)
    /\ (/\ last.op = "validate_and_consume"
        /\ last.nonce \in StoreNoncePool
        /\ storeIssuedAt[last.nonce] # NoneInt
        /\ ~last.usedBefore) =>
           (~last.ok <=> now - storeIssuedAt[last.nonce] > NonceStore_ttl)

\* a verify with a bad signature at the last instant of the nonce's life,
\* after an earlier lookup of the same nonce
C17_Witness ==
    /\ last.op \in VerifyOps
    /\ last.nonce \in NoncePool
    /\ last.status = 401
    /\ issuedAt[last.nonce] # NoneInt
    /\ now = issuedAt[last.nonce] + NONCE_TTL - 1
    /\ now > issuedAt[last.nonce]
    /\ redis[_nonce_key(last.nonce)].exp = now + 1

\* C24: the profile an identity's pointer refers to has updated_at >=
\* created_at; every document saved for an identity carries the created_at
\* of the identity's first document, and a save sets updated_at to its own
\* time, so the pointer refers to the document saved last.
DocsOf(w) == {d \in blobs : d.wallet_address = w}
Normalized(list, own) ==
    \A i \in DOMAIN list :
        /\ list[i] = Lower(list[i])
        /\ list[i] # own
        /\ \A j \in DOMAIN list : list[j] = list[i] => j = i
C23_ListsNormalized ==
    \A w \in Users :
        user_cache[w] # NoneCid =>
            /\ user_cache[w].hash \in blobs
            /\ user_cache[w].hash.wallet_address = w
            /\ Normalized(user_cache[w].hash.followers, w)
            /\ Normalized(user_cache[w].hash.following, w)

\* a repeated follow, with the target's address written in mixed case
C23_Witness ==
    /\ ulast.op = "follow_user" /\ ulast.status = 200 /\ ~ulast.changed
    /\ ulast.current_user = Wallet2 /\ ulast.wallet_address = Wallet1Mixed
    /\ user_cache[Wallet2].hash.following = <<Wallet1>>
    /\ user_cache[Wallet1].hash.followers = <<Wallet2>>

\* C22: within the rate limit, verify answers 400 and issues no token to a
\* request whose message is malformed and to one whose nonce is absent,
\* expired or consumed, whatever its signature; it answers 401 and issues no
\* token to a request with a valid nonce whose signature is not the claimed
\* address's.
C22_FailureClasses ==
    (last.op \in VerifyOps /\ ~RateLimited) =>
        /\ (last.variant = "message" /\ ~last.renderable) =>
               last.status = 400 /\ last.token = NoToken
        /\ (last.claimed # NoneStr /\ last.nonce # NoneStr /\ ~last.validBefore) =>
               last.status = 400 /\ last.token = NoToken
        /\ (/\ last.claimed # NoneStr /\ last.nonce # NoneStr /\ last.validBefore
            /\ ~SignatureMatches) =>
               last.status = 401 /\ last.token = NoToken

\* C21: POST /logout answers ok to every request, whatever its Authorization
\* header, and changes no server state; a token verify returned is accepted
\* by get_current_user at every time before its exp, also after it was
\* presented to logout.
C21_LogoutStateless ==
    /\ last.op = "siwe_logout" =>
           /\ last.status = 200 /\ last.ok
           /\ ~last.changed
           /\ (/\ last.auth.scheme = "Bearer "
               /\ last.auth.token \in tokens
               /\ now < last.auth.token.exp) => last.sub = last.auth.token.sub
    /\ (/\ last.op = "get_current_user"
        /\ last.auth.scheme = "Bearer "
        /\ last.auth.token \in tokens
        /\ now < last.auth.token.exp) =>
           last.status = 200 /\ last.sub = last.auth.token.sub

C21_Witness ==
    /\ last.op = "siwe_logout" /\ last.ok
    /\ last.auth.scheme = "Bearer "
    /\ last.auth.token \in tokens
    /\ now = last.auth.token.exp - 1
    /\ last.sub = Wallet1
    /\ redis[RlVerifyKey(Ip1)] # Absent

\* C15: a request to a profile route that presents no valid unexpired
\* token is answered 401, writes no blob, changes no pointer and returns no
\* profile and no list; this includes POST /profile and GET /profile/{address}.
ProfileOps ==
    {"get_my_profile", "update_my_profile", "get_user_profile", "follow_user",
     "unfollow_user", "get_followers", "get_following", "set_profile", "get_profile"}
C15_CredentialRequired ==
    (ulast.op \in ProfileOps /\ ~ulast.authOk) =>
        /\ ulast.status = 401
        /\ ~ulast.changed
        /\ ulast.profile = NoneDoc
        /\ ulast.list = <<>>

\* C14: after a nonce was requested and the message prepared for address X,
\* verify with that message and X's signature over it returns a token whose
\* address is lowercase X; GET /me with that token returns a profile whose
\* identity is lowercase X, with empty followers and following when no
\* profile existed before.
C14_Verified ==
    (/\ last.op = "siwe_verify" /\ last.variant = "message"
     /\ last.validBefore /\ ~RateLimited) =>
        /\ last.status = 200
        /\ last.token.sub = Lower(last.claimed)
        /\ last.token.sub = Lower(last.signature.signer)
        /\ last.token \in tokens
        /\ last.message = lastPrepared.message =>
               last.token.sub = Lower(lastPrepared.requested)
C14_Profile ==
    (ulast.op = "get_my_profile" /\ ulast.auth.token \in tokens /\ ulast.authOk) =>
        /\ ulast.status = 200
        /\ ulast.profile.wallet_address = ulast.auth.token.sub
        /\ ~ulast.existed =>
               /\ ulast.profile.followers = <<>>
               /\ ulast.profile.following = <<>>
               /\ ulast.profile = DefaultProfile(ulast.auth.token.sub, ulast.at)
C14_EndToEnd == C14_Verified /\ C14_Profile

C14_Witness ==
    /\ last.op = "siwe_verify" /\ last.variant = "message" /\ last.status = 200
    /\ last.message = lastPrepared.message
    /\ lastPrepared.requested = Wallet1Mixed
    /\ ulast.op = "get_my_profile" /\ ulast.status = 200
    /\ ulast.auth.token = last.token
    /\ ~ulast.existed
    /\ ulast.profile.wallet_address = Wallet1
    /\ ulast.profile.followers = <<>>

\* C28: NonceStore.validate_and_consume returns True for a stored nonce that
\* was never consumed exactly when now < issued_at + ttl; at the instant
\* now = issued_at + ttl, and at every later one, it returns False.
C28_StrictExpiry ==
    (/\ last.op = "validate_and_consume"
     /\ last.validBefore
     /\ ~last.usedBefore) =>
        (last.ok <=> now < storeIssuedAt[last.nonce] + NonceStore_ttl)

\* C29: a follow or unfollow request during which a blob write fails is
\* answered 500; it never reports success while a profile change was not
\* persisted.
C29_FollowWriteFailure500 ==
    (ulast.op \in {"follow_user", "unfollow_user"} /\ ulast.putFailed) =>
        ulast.status = 500

\* C27: prepare only renders and never extends: the message a successful
\* prepare(address, nonce) returns carries as Expires the expires_at the
\* nonce endpoint returned when the nonce was issued, so prepare calls for
\* the same (address, nonce) at different times return the same message.
C27_PrepareKeepsExpiry ==
    (last.op \in PrepareOps /\ last.status = 200) =>
        last.message = Rendered(last.claimed, last.nonce, issuedAt[last.nonce] + NONCE_TTL)

\* C26: the rate-limit window resets by expiry of the counter: a request of
\* a client that has made at most limit requests of the class during the
\* last RATE_LIMIT_WINDOW_SEC seconds (itself included) is never rejected,
\* and a client that was rejected is admitted again RATE_LIMIT_WINDOW_SEC
\* seconds after its window began.
RecentRequests(i) ==
    {k \in 1..i : /\ SameKey(i, k)
                  /\ rlLog[k].at > rlLog[i].at - RATE_LIMIT_WINDOW_SEC}
C26_QuietClientAdmitted ==
    \A i \in DOMAIN rlLog :
        Cardinality(RecentRequests(i)) <= rlLog[i].limit => rlLog[i].ok
C26_AdmittedAfterWindow ==
    \A j \in DOMAIN rlLog : \A i \in DOMAIN rlLog :
        (/\ j < i /\ SameKey(i, j)
         /\ ~rlLog[j].ok
         /\ rlLog[i].at >= rlLog[WindowStart(j)].at + RATE_LIMIT_WINDOW_SEC
         /\ \A k \in (j + 1)..(i - 1) : ~SameKey(i, k)) =>
            rlLog[i].ok
C26_WindowResets == C26_QuietClientAdmitted /\ C26_AdmittedAfterWindow

\* C30: in the cookie-session variant a request is authenticated iff its
\* cookie is one the server signed, signed no more than ttl seconds ago, and
\* names a session that exists in the SessionStore and was created no more
\* than ttl seconds ago; once a session has been destroyed or has been seen
\* expired, get_session returns nothing for its id in every later state;
\* the address of every stored session is lowercase.
C30_Authenticated ==
    slast.op = "request" =>
        /\ slast.status \in {200, 401}
        /\ slast.status = 200 <=>
               /\ slast.cookie \in cookies
               /\ slast.at - slast.cookie.ts <= SessionStore_ttl
               /\ slast.existedBefore
               /\ slast.at - sessCreated[slast.sid] <= SessionStore_ttl
C30_GoneStaysGone ==
    \A sid \in SessionPool :
        sessGone[sid] => get_session(session_store, sid, now).data = NoSession
C30_LowercaseAddress ==
    \A sid \in SessionPool :
        session_store[sid] # NoSession =>
            session_store[sid].address = Lower(session_store[sid].address)
C30_CookieSession == C30_Authenticated /\ C30_GoneStaysGone /\ C30_LowercaseAddress

C30_Witness ==
    /\ slast.op = "request" /\ slast.status = 200
    /\ slast.at = sessCreated[slast.sid] + SessionStore_ttl
    /\ \E sid \in SessionPool : sessGone[sid] /\ sessCreated[sid] + SessionStore_ttl < now
    /\ Cardinality(cookies) > 1

\* C31: with no store failures and one request at a time, after every
\* sequence of follow and unfollow requests the graph is symmetric: for all
\* identities A and B that have profiles, B is in A's following list iff A
\* is in B's followers list.
HasProfile(w) == user_cache[w] # NoneCid /\ user_cache[w].hash \in blobs
C31_GraphSymmetric ==
    \A a \in Users : \A b \in Users :
        (HasProfile(a) /\ HasProfile(b)) =>
            (InList(b, user_cache[a].hash.following)
                <=> InList(a, user_cache[b].hash.followers))

\* an unfollow that took effect while the other direction stays followed
C31_Witness ==
    /\ ulast.op = "unfollow_user" /\ ulast.status = 200 /\ ulast.changed
    /\ \E a \in Users : \E b \in Users :
           /\ HasProfile(a) /\ HasProfile(b)
           /\ InList(b, user_cache[a].hash.following)
           /\ ~InList(a, user_cache[b].hash.following)

\* C32: a verify request (siwe_verify / legacy_verify) that fails, with 400,
\* 401, 422 or 429, leaves the nonce keys as they were: the nonce it named,
\* if valid before, is valid afterwards; a nonce is removed only by a
\* successful verify that named it or by expiry.
NonceKeysOf(r) == [n \in NoncePool |-> r[_nonce_key(n)]]
C32_Step ==
    /\ (last'.op \in VerifyOps /\ last'.status # 200) =>
           NonceKeysOf(redis') = NonceKeysOf(redis)
    /\ \A n \in NoncePool :
           (redis[_nonce_key(n)] # Absent /\ redis'[_nonce_key(n)] = Absent) =>
               \/ last'.op \in VerifyOps /\ last'.status = 200 /\ last'.nonce = n
               \/ last'.op = "tick" /\ now' >= redis[_nonce_key(n)].exp
C32_FailedVerifyKeepsNonce == [][C32_Step]_vars

\* a verify answered 401 whose nonce was valid before and is valid after
C32_Witness ==
    /\ last.op \in VerifyOps /\ last.status = 401
    /\ last.validBefore
    /\ Present(redis, _nonce_key(last.nonce), now)

\* C33: the read-only profile requests (GET /{identity}, GET
\* /followers/{identity}, GET /following/{identity}) change no state: for
\* every identity, one without a profile included, the pointer map and the
\* blob store are the same after the request as before it.
ReadOps == {"get_user_profile", "get_followers", "get_following"}
C33_Step == ulast'.op \in ReadOps => (user_cache' = user_cache /\ blobs' = blobs)
C33_ReadsChangeNothing == [][C33_Step]_vars

\* C34: a profile pointer is never removed: once an operation has set the
\* pointer of an identity (save_profile in the user service, POST /profile
\* in the CID cache), every later lookup of the identity resolves to a CID
\* and never reports the profile absent, however much time passes.
CidCacheSet(address) ==
    /\ Lower(address) \in Users
    /\ profile_cids[Lower(address)].val # NoneCid
UserPointersKept ==
    \A w \in Users :
        user_cache[w] # NoneCid =>
            /\ user_cache'[w] # NoneCid
            /\ get_profile([ServiceState EXCEPT !.cache = user_cache', !.blobs = blobs'],
                           w).profile # NoneDoc
CidCacheStep ==
    (ulast'.op = "set_profile" /\ ulast'.status = 200 /\ now' = now) =>
        /\ profile_cids'[Lower(ulast'.wallet_address)].val = ulast'.cid
        /\ profile_cids'[Lower(ulast'.wallet_address)].exp = now + PROFILE_CID_TTL
=============================================================================
